---- MODULE Spec2Model ----
(***************************************************************************)
(* The Zap configuration toolchain of zap-format: lexer (two variants),    *)
(* recursive-descent parser and canonical formatter, with the format and   *)
(* validate entry points driving them.  Source text is a TLA+ string, read *)
(* one code unit at a time with SubSeq.                                    *)
(***************************************************************************)
EXTENDS Integers, Sequences, FiniteSets, TLC

(***************************************************************************)
(* Characters.                                                             *)
(***************************************************************************)

\* U+0000.  A TLA+ string literal cannot contain it, so the model writes it
\* with the form-feed escape; CharCode gives it code 0.
NUL == "\f"

\* The printable ASCII characters in code order: U+0020 .. U+005F and
\* U+0061 .. U+007E (a TLA+ string cannot contain U+0060).
AsciiLow == " !\"#$%&'()*+,-./0123456789:;<=>?@ABCDEFGHIJKLMNOPQRSTUVWXYZ[\\]^_"
AsciiHigh == "abcdefghijklmnopqrstuvwxyz{|}~"

CodeTable ==
    [c \in {SubSeq(AsciiLow, i, i) : i \in 1..Len(AsciiLow)} |->
        31 + (CHOOSE i \in 1..Len(AsciiLow) : SubSeq(AsciiLow, i, i) = c)]
    @@ [c \in {SubSeq(AsciiHigh, i, i) : i \in 1..Len(AsciiHigh)} |->
        96 + (CHOOSE i \in 1..Len(AsciiHigh) : SubSeq(AsciiHigh, i, i) = c)]
    @@ (NUL :> 0) @@ ("\t" :> 9) @@ ("\n" :> 10) @@ ("\r" :> 13)

\* String.prototype.charCodeAt on a one-character string.
CharCode(c) == CodeTable[c]

\* input[p], p counted from 0 as in the source.
CharAt(s, p) == SubSeq(s, p + 1, p + 1)

RECURSIVE Includes(_, _)
\* String.prototype.includes for a one-character needle.
Includes(s, c) ==
    IF s = "" THEN FALSE
    ELSE IF Head(s) = c THEN TRUE ELSE Includes(Tail(s), c)

RECURSIVE IndexOf(_, _, _)
\* 0-based index of the first c in s at or after p, or -1.
IndexOf(s, c, p) ==
    IF p >= Len(s) THEN -1
    ELSE IF CharAt(s, p) = c THEN p ELSE IndexOf(s, c, p + 1)

StartsWith(s, prefix) ==
    Len(s) >= Len(prefix) /\ SubSeq(s, 1, Len(prefix)) = prefix

EndsWith(s, suffix) ==
    Len(s) >= Len(suffix) /\ SubSeq(s, Len(s) - Len(suffix) + 1, Len(s)) = suffix

(***************************************************************************)
(* Lexer, character-comparison variant (ZapLexer).                         *)
(***************************************************************************)

keywords ==
    [AlignedCFrame |-> "ALIGNED_CFRAME", args |-> "ARGS", Async |-> "IDENTIFIER",
     boolean |-> "BOOLEAN", BrickColor |-> "BRICK_COLOR", call |-> "CALL",
     camelCase |-> "IDENTIFIER", CFrame |-> "CFRAME", Client |-> "IDENTIFIER",
     Color3 |-> "COLOR3", ConstEnum |-> "IDENTIFIER", data |-> "DATA",
     DateTime |-> "DATETIME", DateTimeMillis |-> "DATETIME_MILLIS",
     enum |-> "ENUM", event |-> "EVENT", f32 |-> "F32", f64 |-> "F64",
     false |-> "BOOLEAN_LITERAL", from |-> "FROM", funct |-> "FUNCT",
     future |-> "IDENTIFIER", i8 |-> "I8", i16 |-> "I16", i32 |-> "I32",
     Instance |-> "INSTANCE", ManyAsync |-> "IDENTIFIER", ManySync |-> "IDENTIFIER",
     map |-> "MAP", namespace |-> "NAMESPACE", opt |-> "OPT",
     PascalCase |-> "IDENTIFIER", Polling |-> "IDENTIFIER", promise |-> "IDENTIFIER",
     Reliable |-> "IDENTIFIER", rets |-> "RETS", Server |-> "IDENTIFIER",
     set |-> "SET", SingleAsync |-> "IDENTIFIER", SingleSync |-> "IDENTIFIER",
     snake_case |-> "IDENTIFIER", string |-> "STRING", StringConstEnum |-> "IDENTIFIER",
     StringLiteral |-> "IDENTIFIER", struct |-> "STRUCT", Sync |-> "IDENTIFIER",
     true |-> "BOOLEAN_LITERAL", type |-> "TYPE", u8 |-> "U8", u16 |-> "U16",
     u32 |-> "U32", unknown |-> "UNKNOWN", Unreliable |-> "IDENTIFIER",
     utf8 |-> "IDENTIFIER", Vector2 |-> "VECTOR2", Vector3 |-> "VECTOR3",
     vector |-> "VECTOR", yield |-> "IDENTIFIER"]

\* keywords.get(value) ?? TokenType.IDENTIFIER
KeywordType(value) ==
    IF value \in DOMAIN keywords THEN keywords[value] ELSE "IDENTIFIER"

isAlpha(character) ==
    LET b == CharCode(character)
    IN  (b >= 97 /\ b <= 122) \/ (b >= 65 /\ b <= 90) \/ character = "_"

isDigit(character) ==
    LET b == CharCode(character) IN b >= 48 /\ b <= 57

isAlphaNumeric(character) == isAlpha(character) \/ isDigit(character)

\* The lexer's cursor: private fields position, line and column.
LexerStart == [position |-> 0, line |-> 1, column |-> 1]

Token(type, value, line, column) ==
    [type |-> type, value |-> value, line |-> line, column |-> column]

NoToken == Token("", "", 0, 0)

\* ZapLexer_advance with the column carried over a newline.
ZapLexer_advance_keepsColumn(s, L) ==
    IF L.position >= Len(s) THEN L
    ELSE IF CharAt(s, L.position) = "\n"
         THEN [position |-> L.position + 1, line |-> L.line + 1, column |-> L.column + 1]
         ELSE [position |-> L.position + 1, line |-> L.line, column |-> L.column + 1]

ZapLexer_advance(s, L) ==
    IF L.position >= Len(s) THEN L
    ELSE IF CharAt(s, L.position) = "\n"
         THEN [position |-> L.position + 1, line |-> L.line + 1, column |-> 1]
         ELSE [position |-> L.position + 1, line |-> L.line, column |-> L.column + 1]

ZapLexer_peek(s, L) ==
    IF L.position >= Len(s) THEN NUL ELSE CharAt(s, L.position)

RECURSIVE AdvanceTimes(_, _, _)
\* for (index = 0; index < n; index += 1) this.advance()
AdvanceTimes(s, L, n) ==
    IF n = 0 THEN L ELSE AdvanceTimes(s, ZapLexer_advance(s, L), n - 1)

RECURSIVE MatchesAt(_, _, _, _)
\* The first loop of match: every character of expected is present at
\* position + index.
MatchesAt(s, L, expected, index) ==
    IF index >= Len(expected) THEN TRUE
    ELSE IF L.position + index >= Len(s)
            \/ CharAt(s, L.position + index) # CharAt(expected, index)
         THEN FALSE
         ELSE MatchesAt(s, L, expected, index + 1)

ZapLexer_match(s, L, expected) ==
    IF MatchesAt(s, L, expected, 0)
    THEN [matched |-> TRUE, L |-> AdvanceTimes(s, L, Len(expected))]
    ELSE [matched |-> FALSE, L |-> L]

RECURSIVE ZapLexer_skipWhitespace(_, _)
ZapLexer_skipWhitespace(s, L) ==
    IF L.position < Len(s)
       /\ ZapLexer_peek(s, L) \in {" ", "\t", "\r"}
    THEN ZapLexer_skipWhitespace(s, ZapLexer_advance(s, L))
    ELSE L

\* What nextToken hands back: a token, undefined, or a thrown Error.
Produced(L, token) == [kind |-> "token", L |-> L, token |-> token, message |-> ""]
Undefined(L) == [kind |-> "undefined", L |-> L, token |-> NoToken, message |-> ""]
Thrown(L, message) == [kind |-> "throw", L |-> L, token |-> NoToken, message |-> message]

RECURSIVE CommentRun(_, _, _)
CommentRun(s, L, value) ==
    IF L.position < Len(s) /\ ZapLexer_peek(s, L) # "\n"
    THEN CommentRun(s, ZapLexer_advance(s, L), value \o ZapLexer_peek(s, L))
    ELSE [L |-> L, value |-> value]

ZapLexer_readComment(s, L, startLine, startColumn) ==
    LET r == CommentRun(s, L, "")
    IN  Produced(r.L, Token("COMMENT", "--" \o r.value, startLine, startColumn))

RECURSIVE IdentifierRun(_, _, _)
IdentifierRun(s, L, value) ==
    IF L.position < Len(s)
       /\ (isAlphaNumeric(ZapLexer_peek(s, L)) \/ ZapLexer_peek(s, L) = "_")
    THEN IdentifierRun(s, ZapLexer_advance(s, L), value \o ZapLexer_peek(s, L))
    ELSE [L |-> L, value |-> value]

ZapLexer_readIdentifier(s, L, startLine, startColumn) ==
    LET head == IdentifierRun(s, L, "")
        full == IF ZapLexer_peek(s, head.L) = "."
                THEN IdentifierRun(s, ZapLexer_advance(s, head.L), head.value \o ".")
                ELSE head
    IN  IF Includes(full.value, ".")
        THEN Produced(full.L, Token("IDENTIFIER", full.value, startLine, startColumn))
        ELSE Produced(full.L, Token(KeywordType(full.value), full.value, startLine, startColumn))

RECURSIVE NumberRun(_, _, _, _)
\* The loop of readNumber without the look at the character after a dot.
NumberRun_takesDot(s, L, value, hasDecimalPoint) ==
    IF L.position < Len(s)
    THEN LET currentCharacter == ZapLexer_peek(s, L)
         IN  IF isDigit(currentCharacter)
             THEN NumberRun(s, ZapLexer_advance(s, L), value \o currentCharacter, hasDecimalPoint)
             ELSE IF currentCharacter = "." /\ ~hasDecimalPoint
                  THEN NumberRun(s, ZapLexer_advance(s, L), value \o currentCharacter, TRUE)
                  ELSE [L |-> L, value |-> value]
    ELSE [L |-> L, value |-> value]

NumberRun(s, L, value, hasDecimalPoint) ==
    IF L.position < Len(s)
    THEN LET currentCharacter == ZapLexer_peek(s, L)
         IN  IF isDigit(currentCharacter)
             THEN NumberRun(s, ZapLexer_advance(s, L), value \o currentCharacter, hasDecimalPoint)
             ELSE IF currentCharacter = "." /\ ~hasDecimalPoint
                  THEN IF L.position + 1 < Len(s) /\ CharAt(s, L.position + 1) = "."
                       THEN [L |-> L, value |-> value]
                       ELSE NumberRun(s, ZapLexer_advance(s, L), value \o currentCharacter, TRUE)
                  ELSE [L |-> L, value |-> value]
    ELSE [L |-> L, value |-> value]

ZapLexer_readNumber(s, L, startLine, startColumn) ==
    LET r == NumberRun(s, L, "", FALSE)
    IN  Produced(r.L, Token("NUMBER_LITERAL", r.value, startLine, startColumn))

\* The switch of readStringLiteral with a default branch that keeps the
\* backslash.
Unescape_keepsBackslash(escaped) ==
    CASE escaped = "\"" -> "\""
      [] escaped = "\\" -> "\\"
      [] escaped = "n" -> "\n"
      [] escaped = "r" -> "\r"
      [] escaped = "t" -> "\t"
      [] OTHER -> "\\" \o escaped

\* The switch on the escaped character in readStringLiteral.
Unescape(escaped) ==
    CASE escaped = "\"" -> "\""
      [] escaped = "\\" -> "\\"
      [] escaped = "n" -> "\n"
      [] escaped = "r" -> "\r"
      [] escaped = "t" -> "\t"
      [] OTHER -> escaped

RECURSIVE StringRunUpTo(_, _, _, _)
\* The while loop of readStringLiteral, for at most that many iterations.
StringRunUpTo(s, L, value, iterations) ==
    IF iterations > 0 /\ L.position < Len(s) /\ ZapLexer_peek(s, L) # "\""
    THEN IF ZapLexer_peek(s, L) = "\\"
         THEN LET L1 == ZapLexer_advance(s, L)
              IN  IF L1.position < Len(s)
                  THEN StringRunUpTo(s, ZapLexer_advance(s, L1),
                                     value \o Unescape(ZapLexer_peek(s, L1)), iterations - 1)
                  ELSE StringRunUpTo(s, L1, value, iterations - 1)
         ELSE StringRunUpTo(s, ZapLexer_advance(s, L), value \o ZapLexer_peek(s, L),
                            iterations - 1)
    ELSE [L |-> L, value |-> value]

RECURSIVE StringRun(_, _, _)
\* The while loop of readStringLiteral to its end, ten iterations at a time.
StringRun(s, L, value) ==
    LET r == StringRunUpTo(s, L, value, 10)
    IN  IF r.L.position < Len(s) /\ ZapLexer_peek(s, r.L) # "\""
        THEN StringRun(s, r.L, r.value)
        ELSE r

ZapLexer_readStringLiteral(s, L, startLine, startColumn) ==
    LET r == StringRun(s, ZapLexer_advance(s, L), "")
    IN  IF r.L.position >= Len(s)
        THEN Thrown(r.L, "Unterminated string literal at line " \o ToString(startLine)
                          \o ", column " \o ToString(startColumn))
        ELSE Produced(ZapLexer_advance(s, r.L),
                      Token("STRING_LITERAL", "\"" \o r.value \o "\"", startLine, startColumn))

\* The single-character cases of the switch in nextToken.
Punctuation ==
    ("\n" :> "NEWLINE") @@ ("(" :> "LEFT_PAREN") @@ (")" :> "RIGHT_PAREN")
    @@ ("," :> "COMMA") @@ (":" :> "COLON") @@ ("<" :> "LESS_THAN")
    @@ ("=" :> "EQUALS") @@ (">" :> "GREATER_THAN") @@ ("?" :> "QUESTION")
    @@ ("[" :> "LEFT_BRACKET") @@ ("]" :> "RIGHT_BRACKET") @@ ("{" :> "LEFT_BRACE")
    @@ ("|" :> "PIPE") @@ ("}" :> "RIGHT_BRACE")

UnexpectedCharacter(s, L) ==
    "Unexpected character '" \o ZapLexer_peek(s, L) \o "' at line "
        \o ToString(L.line) \o ", column " \o ToString(L.column)

ZapLexer_nextToken(s, L0) ==
    LET L == ZapLexer_skipWhitespace(s, L0)
        startLine == L.line
        startColumn == L.column
        dashes == ZapLexer_match(s, L, "--")
        dots == ZapLexer_match(s, L, "..")
        character == ZapLexer_peek(s, L)
    IN  IF L.position >= Len(s) THEN Undefined(L)
        ELSE IF dashes.matched THEN ZapLexer_readComment(s, dashes.L, startLine, startColumn)
        ELSE IF dots.matched THEN Produced(dots.L, Token("DOT_DOT", "..", startLine, startColumn))
        ELSE IF character = "" THEN Undefined(L)
        ELSE IF character \in DOMAIN Punctuation
             THEN Produced(ZapLexer_advance(s, L),
                           Token(Punctuation[character], character, startLine, startColumn))
        ELSE IF character = "\"" THEN ZapLexer_readStringLiteral(s, L, startLine, startColumn)
        ELSE IF isDigit(character) THEN ZapLexer_readNumber(s, L, startLine, startColumn)
        ELSE IF isAlpha(character) THEN ZapLexer_readIdentifier(s, L, startLine, startColumn)
        ELSE Thrown(L, UnexpectedCharacter(s, L))

(***************************************************************************)
(* Lexer, char-code variant.  advance, peek, readComment and               *)
(* readStringLiteral are the same text as in the character variant.        *)
(***************************************************************************)

BYTE_LOWER_A == 97
BYTE_LOWER_Z == 122
BYTE_UPPER_A == 65
BYTE_UPPER_Z == 90
BYTE_UNDERSCORE == 95
BYTE_0 == 48
BYTE_9 == 57

isAlphabetByte(byte) ==
    (byte >= BYTE_LOWER_A /\ byte <= BYTE_LOWER_Z)
    \/ (byte >= BYTE_UPPER_A /\ byte <= BYTE_UPPER_Z)
    \/ byte = BYTE_UNDERSCORE

isNumericByte(byte) == byte >= BYTE_0 /\ byte <= BYTE_9

isAlphanumericByte(byte) == isAlphabetByte(byte) \/ isNumericByte(byte)

ZapLexerBytes_peekByte(s, L) ==
    IF L.position >= Len(s) THEN 0 ELSE CharCode(CharAt(s, L.position))

ZapLexerBytes_match(s, L, expected) ==
    IF L.position + Len(expected) > Len(s) THEN [matched |-> FALSE, L |-> L]
    ELSE IF SubSeq(s, L.position + 1, L.position + Len(expected)) = expected
         THEN [matched |-> TRUE, L |-> AdvanceTimes(s, L, Len(expected))]
         ELSE [matched |-> FALSE, L |-> L]

RECURSIVE ZapLexerBytes_skipWhitespace(_, _)
ZapLexerBytes_skipWhitespace(s, L) ==
    IF L.position < Len(s)
       /\ ZapLexerBytes_peekByte(s, L) \in {32, 9, 13}
    THEN ZapLexerBytes_skipWhitespace(s, ZapLexer_advance(s, L))
    ELSE L

RECURSIVE IdentifierRunBytes(_, _, _)
IdentifierRunBytes(s, L, value) ==
    IF L.position < Len(s) /\ isAlphanumericByte(ZapLexerBytes_peekByte(s, L))
    THEN IdentifierRunBytes(s, ZapLexer_advance(s, L), value \o ZapLexer_peek(s, L))
    ELSE [L |-> L, value |-> value]

ZapLexerBytes_readIdentifier(s, L, startLine, startColumn) ==
    LET head == IdentifierRunBytes(s, L, "")
        full == IF ZapLexer_peek(s, head.L) = "."
                THEN IdentifierRunBytes(s, ZapLexer_advance(s, head.L), head.value \o ".")
                ELSE head
    IN  IF Includes(full.value, ".")
        THEN Produced(full.L, Token("IDENTIFIER", full.value, startLine, startColumn))
        ELSE Produced(full.L, Token(KeywordType(full.value), full.value, startLine, startColumn))

RECURSIVE NumberRunBytes(_, _, _, _)
NumberRunBytes(s, L, value, hasDecimalPoint) ==
    IF L.position < Len(s)
    THEN LET byte == ZapLexerBytes_peekByte(s, L)
         IN  IF isNumericByte(byte)
             THEN NumberRunBytes(s, ZapLexer_advance(s, L), value \o ZapLexer_peek(s, L), hasDecimalPoint)
             ELSE IF byte = 46 /\ ~hasDecimalPoint
                  THEN IF L.position + 1 < Len(s) /\ CharAt(s, L.position + 1) = "."
                       THEN [L |-> L, value |-> value]
                       ELSE NumberRunBytes(s, ZapLexer_advance(s, L), value \o ZapLexer_peek(s, L), TRUE)
                  ELSE [L |-> L, value |-> value]
    ELSE [L |-> L, value |-> value]

ZapLexerBytes_readNumber(s, L, startLine, startColumn) ==
    LET r == NumberRunBytes(s, L, "", FALSE)
    IN  Produced(r.L, Token("NUMBER_LITERAL", r.value, startLine, startColumn))

\* The cases of the switch on the char code in nextToken.
PunctuationBytes ==
    (10 :> "NEWLINE") @@ (40 :> "LEFT_PAREN") @@ (41 :> "RIGHT_PAREN")
    @@ (44 :> "COMMA") @@ (58 :> "COLON") @@ (60 :> "LESS_THAN")
    @@ (61 :> "EQUALS") @@ (62 :> "GREATER_THAN") @@ (63 :> "QUESTION")
    @@ (91 :> "LEFT_BRACKET") @@ (93 :> "RIGHT_BRACKET") @@ (123 :> "LEFT_BRACE")
    @@ (124 :> "PIPE") @@ (125 :> "RIGHT_BRACE")

ZapLexerBytes_nextToken(s, L0) ==
    LET L == ZapLexerBytes_skipWhitespace(s, L0)
        startLine == L.line
        startColumn == L.column
        dashes == ZapLexerBytes_match(s, L, "--")
        dots == ZapLexerBytes_match(s, L, "..")
        byte == ZapLexerBytes_peekByte(s, L)
    IN  IF L.position >= Len(s) THEN Undefined(L)
        ELSE IF dashes.matched THEN ZapLexer_readComment(s, dashes.L, startLine, startColumn)
        ELSE IF dots.matched THEN Produced(dots.L, Token("DOT_DOT", "..", startLine, startColumn))
        ELSE IF byte = 0 THEN Undefined(L)
        ELSE IF byte \in DOMAIN PunctuationBytes
             THEN Produced(ZapLexer_advance(s, L),
                           Token(PunctuationBytes[byte], ZapLexer_peek(s, L), startLine, startColumn))
        ELSE IF byte = 34 THEN ZapLexer_readStringLiteral(s, L, startLine, startColumn)
        ELSE IF isNumericByte(byte) THEN ZapLexerBytes_readNumber(s, L, startLine, startColumn)
        ELSE IF isAlphabetByte(byte) THEN ZapLexerBytes_readIdentifier(s, L, startLine, startColumn)
        ELSE Thrown(L, UnexpectedCharacter(s, L))

\* One call of nextToken by the lexer variant in use.
NextTokenOf(variant, s, L) ==
    IF variant = "bytes" THEN ZapLexerBytes_nextToken(s, L) ELSE ZapLexer_nextToken(s, L)

(***************************************************************************)
(* Numbers.  A number literal is digits with at most one "."; the value    *)
(* Number.parseFloat gives it is kept as its exact decimal expansion       *)
(* [i |-> integer digits without leading zeros, f |-> fraction digits      *)
(* without trailing zeros], which is what a double holds for the literals  *)
(* of at most 15 significant digits that the model draws.                  *)
(***************************************************************************)

RECURSIVE StripLeadingZeros(_)
StripLeadingZeros(d) ==
    IF d # "" /\ Head(d) = "0" THEN StripLeadingZeros(Tail(d)) ELSE d

RECURSIVE StripTrailingZeros(_)
StripTrailingZeros(d) ==
    IF d # "" /\ SubSeq(d, Len(d), Len(d)) = "0"
    THEN StripTrailingZeros(SubSeq(d, 1, Len(d) - 1)) ELSE d

\* Number.parseFloat on the value of a NUMBER_LITERAL token.
ParseFloat(value) ==
    LET dot == IndexOf(value, ".", 0)
        intDigits == IF dot = -1 THEN value ELSE SubSeq(value, 1, dot)
        fracDigits == IF dot = -1 THEN "" ELSE SubSeq(value, dot + 2, Len(value))
        i == StripLeadingZeros(intDigits)
    IN  [i |-> IF i = "" THEN "0" ELSE i, f |-> StripTrailingZeros(fracDigits)]

\* d[.ddd] of the exponent form of Number::toString.
Mantissa(digits) ==
    IF Len(digits) = 1 THEN digits
    ELSE SubSeq(digits, 1, 1) \o "." \o SubSeq(digits, 2, Len(digits))

\* String(number) and `${number}`: decimal notation for 1e-7 < x < 1e21,
\* exponent notation outside it.
NumberToString(n) ==
    IF n.f = ""
    THEN IF Len(n.i) <= 21 THEN n.i
         ELSE Mantissa(StripTrailingZeros(n.i)) \o "e+" \o ToString(Len(n.i) - 1)
    ELSE IF n.i # "0" THEN n.i \o "." \o n.f
         ELSE LET digits == StripLeadingZeros(n.f)
                  zeros == Len(n.f) - Len(digits)
              IN  IF zeros <= 5 THEN "0." \o n.f
                  ELSE Mantissa(digits) \o "e-" \o ToString(zeros + 1)

(***************************************************************************)
(* Parser.  ts is the token array, c the cursor `current` (from 0).  Every *)
(* production returns Ok(cursor, value) or Fail(message) for a thrown      *)
(* Error.  An absent optional field is <<>>, a present one <<value>>.      *)
(***************************************************************************)

STANDARD_TYPES ==
    {"ALIGNED_CFRAME", "BOOLEAN", "BRICK_COLOR", "CFRAME", "COLOR3", "DATETIME",
     "DATETIME_MILLIS", "F32", "F64", "I8", "I16", "I32", "STRING", "U8", "U16",
     "U32", "UNKNOWN", "VECTOR", "VECTOR2", "VECTOR3"}

NUMBER_TYPES == {"f32", "f64", "i8", "i16", "i32", "string", "u8", "u16", "u32"}

PROPERTY_TYPES == {"ARGS", "CALL", "DATA", "FROM", "IDENTIFIER", "RETS", "TYPE"}

IDENTIFIER_SET == {"CALL", "DATA", "FROM", "TYPE"}

Ok(c, v) == [ok |-> TRUE, c |-> c, v |-> v, message |-> ""]
Fail(message) == [ok |-> FALSE, c |-> 0, v |-> <<>>, message |-> message]

\* TokenTypeMeta[tokenType].name: the symbolic name of the token kind.
ZapParser_getTokenTypeName(tokenType) == tokenType

ZapParser_peek(ts, c) == ts[c + 1]

ZapParser_peekNext(ts, c) ==
    IF c + 1 >= Len(ts) THEN NoToken ELSE ts[c + 2]

ZapParser_isAtEnd(ts, c) == ZapParser_peek(ts, c).type = "EOF"

\* advance(): the new cursor; the token it returns is ZapParser_previous.
ZapParser_advance(ts, c) == IF ~ZapParser_isAtEnd(ts, c) THEN c + 1 ELSE c

ZapParser_previous(ts, c) == ts[c]

ZapParser_check(ts, c, type) ==
    IF ZapParser_isAtEnd(ts, c) THEN FALSE ELSE ZapParser_peek(ts, c).type = type

GotAtLine(ts, c) ==
    "'" \o ZapParser_getTokenTypeName(ZapParser_peek(ts, c).type) \o "' at line "
        \o ToString(ZapParser_peek(ts, c).line)

\* consume that reports the token it expected in place of the one it met.
ZapParser_consume_namesExpected(ts, c, type, message) ==
    IF ZapParser_check(ts, c, type) THEN Ok(ZapParser_advance(ts, c), ZapParser_peek(ts, c))
    ELSE Fail(message \o ". Got '" \o ZapParser_getTokenTypeName(type) \o "' at line "
                \o ToString(ZapParser_peek(ts, c).line))

ZapParser_consume(ts, c, type, message) ==
    IF ZapParser_check(ts, c, type)
    THEN Ok(ZapParser_advance(ts, c), ZapParser_previous(ts, ZapParser_advance(ts, c)))
    ELSE Fail(message \o ". Got " \o GotAtLine(ts, c))

ZapParser_consumeIdentifierValue(ts, c) ==
    LET token == ZapParser_peek(ts, c)
    IN  IF token.type = "IDENTIFIER" \/ token.type \in IDENTIFIER_SET
        THEN Ok(ZapParser_advance(ts, c), ZapParser_previous(ts, ZapParser_advance(ts, c)).value)
        ELSE Fail("Expected identifier value, got " \o GotAtLine(ts, c))

ZapParser_isValidParameterName(ts, c) == ZapParser_peek(ts, c).type \in PROPERTY_TYPES

ZapParser_consumeParameterName(ts, c) ==
    IF ZapParser_isValidParameterName(ts, c)
    THEN Ok(ZapParser_advance(ts, c), ZapParser_previous(ts, ZapParser_advance(ts, c)).value)
    ELSE Fail("Expected parameter name, got " \o GotAtLine(ts, c))

ZapParser_consumePropertyName(ts, c) ==
    IF ZapParser_peek(ts, c).type \in PROPERTY_TYPES
    THEN Ok(ZapParser_advance(ts, c), ZapParser_previous(ts, ZapParser_advance(ts, c)).value)
    ELSE Fail("Expected property name, got " \o GotAtLine(ts, c))

ZapParser_isPrimitiveType(ts, c) ==
    LET token == ZapParser_peek(ts, c)
    IN  IF token.type \in STANDARD_TYPES THEN TRUE
        ELSE IF token.type = "IDENTIFIER" /\ Includes(token.value, ".")
             THEN LET baseType == SubSeq(token.value, 1, IndexOf(token.value, ".", 0))
                  IN  IF baseType # "" THEN baseType \in NUMBER_TYPES ELSE FALSE
             ELSE FALSE

RECURSIVE ZapParser_skipNewlines(_, _)
ZapParser_skipNewlines(ts, c) ==
    IF ZapParser_check(ts, c, "NEWLINE")
    THEN ZapParser_skipNewlines(ts, ZapParser_advance(ts, c))
    ELSE c

\* A statement of a production that may throw, and the statements after it:
\* a thrown Error (r not ok) ends the production, otherwise the rest runs
\* with what the statement returned.
Then(r, Rest(_)) == IF r.ok THEN Rest(r) ELSE r

\* const name = value, and the statements after it.
With(value, Rest(_)) == Rest(value)

ZapParser_parseComment(ts, c) ==
    Then(ZapParser_consume(ts, c, "COMMENT", "Expected comment"), LAMBDA token :
         Ok(token.c, [type |-> "comment", text |-> token.v.value]))

ZapParser_parseRangeConstraintContent(ts, c) ==
    IF ZapParser_check(ts, c, "DOT_DOT")
    THEN LET c1 == ZapParser_advance(ts, c)
         IN  IF ZapParser_check(ts, c1, "NUMBER_LITERAL")
             THEN Ok(ZapParser_advance(ts, c1),
                     [min |-> <<>>, max |-> <<ParseFloat(ZapParser_peek(ts, c1).value)>>])
             ELSE Ok(c1, [min |-> <<>>, max |-> <<>>])
    ELSE IF ZapParser_check(ts, c, "NUMBER_LITERAL")
    THEN LET min == ParseFloat(ZapParser_peek(ts, c).value)
             c1 == ZapParser_advance(ts, c)
         IN  IF ZapParser_check(ts, c1, "DOT_DOT")
             THEN LET c2 == ZapParser_advance(ts, c1)
                  IN  IF ZapParser_check(ts, c2, "NUMBER_LITERAL")
                      THEN Ok(ZapParser_advance(ts, c2),
                              [min |-> <<min>>, max |-> <<ParseFloat(ZapParser_peek(ts, c2).value)>>])
                      ELSE Ok(c2, [min |-> <<min>>, max |-> <<>>])
             ELSE Ok(c1, [min |-> <<min>>, max |-> <<min>>])
    ELSE Ok(c, [min |-> <<>>, max |-> <<>>])

ZapParser_parseRangeConstraint(ts, c) ==
    Then(ZapParser_consume(ts, c, "LEFT_PAREN", "Expected \"(\""), LAMBDA open :
    Then(ZapParser_parseRangeConstraintContent(ts, open.c), LAMBDA constraint :
    Then(ZapParser_consume(ts, constraint.c, "RIGHT_PAREN", "Expected \")\""), LAMBDA close :
         Ok(close.c, constraint.v))))

\* The `[` range? `]` suffix shared by parsePrimitiveType and
\* parseOptionalType, with the cursor on the token after `[`.
ArraySuffix(ts, c) ==
    IF ~ZapParser_check(ts, c, "RIGHT_BRACKET")
    THEN Then(ZapParser_parseRangeConstraintContent(ts, c), LAMBDA arrayConstraint :
         Then(ZapParser_consume(ts, arrayConstraint.c, "RIGHT_BRACKET", "Expected \"]\""),
              LAMBDA close : Ok(close.c, <<arrayConstraint.v>>)))
    ELSE Then(ZapParser_consume(ts, c, "RIGHT_BRACKET", "Expected \"]\""),
              LAMBDA close : Ok(close.c, <<>>))

ZapParser_parsePrimitiveType(ts, c) ==
    With(ZapParser_advance(ts, c), LAMBDA c1 :
    With(ZapParser_previous(ts, c1).value, LAMBDA typeName :
         IF ZapParser_check(ts, c1, "LEFT_PAREN")
         THEN Then(ZapParser_parseRangeConstraint(ts, c1), LAMBDA constraint :
                   Ok(constraint.c, [type |-> "type", subtype |-> "primitive",
                                     name |-> typeName, constraint |-> <<constraint.v>>]))
         ELSE IF ZapParser_check(ts, c1, "LEFT_BRACKET")
         THEN Then(ArraySuffix(ts, ZapParser_advance(ts, c1)), LAMBDA suffix :
                   Ok(suffix.c,
                      [type |-> "type", subtype |-> "array", constraint |-> suffix.v,
                       elementType |-> [type |-> "type", subtype |-> "primitive",
                                        name |-> typeName, constraint |-> <<>>]]))
         ELSE Ok(c1, [type |-> "type", subtype |-> "primitive",
                      name |-> typeName, constraint |-> <<>>])))

ZapParser_parseInstanceType(ts, c) ==
    Then(ZapParser_consume(ts, c, "INSTANCE", "Expected \"Instance\""), LAMBDA keyword :
         IF ZapParser_check(ts, keyword.c, "LEFT_PAREN")
         THEN Then(ZapParser_consumeIdentifierValue(ts, ZapParser_advance(ts, keyword.c)),
                   LAMBDA className :
              Then(ZapParser_consume(ts, className.c, "RIGHT_PAREN", "Expected \")\""),
                   LAMBDA close :
                   Ok(close.c, [type |-> "type", subtype |-> "instance",
                                className |-> <<className.v>>])))
         ELSE Ok(keyword.c, [type |-> "type", subtype |-> "instance", className |-> <<>>]))

\* The value of parseOption, with the cursor after the `=`.
OptionValue(ts, c, key) ==
    LET token == ZapParser_peek(ts, c)
        Option(value) == Ok(ZapParser_advance(ts, c),
                            [type |-> "option", key |-> key, value |-> value])
    IN  IF ZapParser_check(ts, c, "STRING_LITERAL")
        THEN Option([t |-> "string", s |-> token.value])
        ELSE IF ZapParser_check(ts, c, "NUMBER_LITERAL")
             THEN Option([t |-> "number", n |-> ParseFloat(token.value)])
        ELSE IF ZapParser_check(ts, c, "BOOLEAN_LITERAL")
             THEN Option([t |-> "boolean", b |-> token.value = "true"])
        ELSE IF ZapParser_check(ts, c, "IDENTIFIER")
             THEN Option([t |-> "string", s |-> token.value])
        ELSE Fail("Expected value for option \"" \o key \o "\"")

ZapParser_parseOption(ts, c) ==
    Then(ZapParser_consume(ts, c, "OPT", "Expected \"opt\""), LAMBDA keyword :
    Then(ZapParser_consume(ts, keyword.c, "IDENTIFIER", "Expected option key"), LAMBDA key :
    Then(ZapParser_consume(ts, key.c, "EQUALS", "Expected \"=\""), LAMBDA equals :
         OptionValue(ts, equals.c, key.v.value))))

RECURSIVE ZapParser_parseType(_, _)
RECURSIVE ZapParser_parseUnionType(_, _)
RECURSIVE ZapParser_parseOptionalType(_, _)
RECURSIVE ZapParser_parseBaseType(_, _)
RECURSIVE ZapParser_parseStructFields(_, _)
RECURSIVE ZapParser_parseStructType(_, _)
RECURSIVE ZapParser_parseEnumType(_, _)
RECURSIVE ZapParser_parseVectorType(_, _)
RECURSIVE ZapParser_parseMapType(_, _)
RECURSIVE ZapParser_parseSetType(_, _)
RECURSIVE TupleElements(_, _, _)
RECURSIVE VectorComponents(_, _, _)
RECURSIVE StructFieldLoop(_, _, _)
RECURSIVE EnumVariantLoop(_, _, _, _)
RECURSIVE ArraySuffixLoop(_, _, _)
RECURSIVE UnionLoop(_, _, _)

\* The do-while of parseBaseType, from the top of its body.
TupleElements(ts, c0, elements) ==
    With(ZapParser_skipNewlines(ts, c0), LAMBDA c :
         IF ZapParser_check(ts, c, "RIGHT_PAREN") THEN Ok(c, elements)
         ELSE
    With(ZapParser_peekNext(ts, c).type = "COLON" /\ ZapParser_isValidParameterName(ts, c),
         LAMBDA named :
    Then(IF named THEN ZapParser_consumeParameterName(ts, c) ELSE Ok(c, ""), LAMBDA name :
    Then(ZapParser_parseType(ts, IF named THEN ZapParser_advance(ts, name.c) ELSE c),
         LAMBDA elementType :
    With(Append(elements, [name |-> IF named THEN <<name.v>> ELSE <<>>,
                           type |-> elementType.v]), LAMBDA pushed :
    With(ZapParser_skipNewlines(ts, elementType.c), LAMBDA c1 :
         IF ~ZapParser_check(ts, c1, "COMMA") THEN Ok(c1, pushed)
         ELSE
    With(ZapParser_skipNewlines(ts, ZapParser_advance(ts, c1)), LAMBDA c2 :
         IF ZapParser_check(ts, c2, "RIGHT_PAREN") THEN Ok(c2, pushed)
         ELSE TupleElements(ts, c2, pushed))))))))

\* parseBaseType that wraps a single unnamed element in a Tuple node too.
ZapParser_parseBaseType_alwaysTuple(ts, c) ==
    IF ZapParser_check(ts, c, "LEFT_PAREN")
    THEN With(ZapParser_advance(ts, c), LAMBDA c1 :
         Then(IF ~ZapParser_check(ts, c1, "RIGHT_PAREN")
              THEN TupleElements(ts, c1, <<>>)
              ELSE Ok(c1, <<>>), LAMBDA elements :
         Then(ZapParser_consume(ts, elements.c, "RIGHT_PAREN", "Expected \")\""),
              LAMBDA close :
              Ok(close.c, [type |-> "type", subtype |-> "tuple",
                           elements |-> elements.v]))))
    ELSE IF ZapParser_check(ts, c, "MAP") THEN ZapParser_parseMapType(ts, c)
    ELSE IF ZapParser_check(ts, c, "SET") THEN ZapParser_parseSetType(ts, c)
    ELSE IF ZapParser_check(ts, c, "INSTANCE") THEN ZapParser_parseInstanceType(ts, c)
    ELSE IF ZapParser_check(ts, c, "ENUM") THEN ZapParser_parseEnumType(ts, c)
    ELSE IF ZapParser_check(ts, c, "STRUCT") THEN ZapParser_parseStructType(ts, c)
    ELSE IF ZapParser_check(ts, c, "VECTOR") \/ ZapParser_check(ts, c, "VECTOR2")
            \/ ZapParser_check(ts, c, "VECTOR3")
         THEN ZapParser_parseVectorType(ts, c)
    ELSE IF ZapParser_check(ts, c, "IDENTIFIER")
            /\ StartsWith(ZapParser_peek(ts, c).value, "Instance.")
         THEN LET value == ZapParser_peek(ts, c).value
              IN  Ok(ZapParser_advance(ts, c),
                     [type |-> "type", subtype |-> "instance",
                      className |-> <<SubSeq(value, 10, Len(value))>>])
    ELSE IF ZapParser_isPrimitiveType(ts, c) THEN ZapParser_parsePrimitiveType(ts, c)
    ELSE Fail("Unexpected token in type: " \o GotAtLine(ts, c))

ZapParser_parseBaseType(ts, c) ==
    IF ZapParser_check(ts, c, "LEFT_PAREN")
    THEN With(ZapParser_advance(ts, c), LAMBDA c1 :
         Then(IF ~ZapParser_check(ts, c1, "RIGHT_PAREN")
              THEN TupleElements(ts, c1, <<>>)
              ELSE Ok(c1, <<>>), LAMBDA elements :
         Then(ZapParser_consume(ts, elements.c, "RIGHT_PAREN", "Expected \")\""),
              LAMBDA close :
              IF Len(elements.v) = 1 /\ elements.v[1].name = <<>>
              THEN Ok(close.c, elements.v[1].type)
              ELSE Ok(close.c, [type |-> "type", subtype |-> "tuple",
                                elements |-> elements.v]))))
    ELSE IF ZapParser_check(ts, c, "MAP") THEN ZapParser_parseMapType(ts, c)
    ELSE IF ZapParser_check(ts, c, "SET") THEN ZapParser_parseSetType(ts, c)
    ELSE IF ZapParser_check(ts, c, "INSTANCE") THEN ZapParser_parseInstanceType(ts, c)
    ELSE IF ZapParser_check(ts, c, "ENUM") THEN ZapParser_parseEnumType(ts, c)
    ELSE IF ZapParser_check(ts, c, "STRUCT") THEN ZapParser_parseStructType(ts, c)
    ELSE IF ZapParser_check(ts, c, "VECTOR") \/ ZapParser_check(ts, c, "VECTOR2")
            \/ ZapParser_check(ts, c, "VECTOR3")
         THEN ZapParser_parseVectorType(ts, c)
    ELSE IF ZapParser_check(ts, c, "IDENTIFIER")
            /\ StartsWith(ZapParser_peek(ts, c).value, "Instance.")
         THEN LET value == ZapParser_peek(ts, c).value
              IN  Ok(ZapParser_advance(ts, c),
                     [type |-> "type", subtype |-> "instance",
                      className |-> <<SubSeq(value, 10, Len(value))>>])
    ELSE IF ZapParser_isPrimitiveType(ts, c) THEN ZapParser_parsePrimitiveType(ts, c)
    ELSE Fail("Unexpected token in type: " \o GotAtLine(ts, c))

\* The while loop of parseStructFields, from its condition.
StructFieldLoop(ts, c0, fields) ==
    IF ~ZapParser_check(ts, c0, "RIGHT_BRACE") /\ ~ZapParser_isAtEnd(ts, c0)
    THEN With(ZapParser_skipNewlines(ts, c0), LAMBDA c :
              IF ZapParser_check(ts, c, "RIGHT_BRACE") THEN Ok(c, fields)
              ELSE
         Then(ZapParser_consume(ts, c, "IDENTIFIER", "Expected field name"), LAMBDA fieldName :
         Then(ZapParser_consume(ts, fieldName.c, "COLON", "Expected \":\""), LAMBDA colon :
         Then(ZapParser_parseType(ts, colon.c), LAMBDA fieldType :
         With(Append(fields, [name |-> fieldName.v.value, type |-> fieldType.v]),
              LAMBDA pushed :
              IF ZapParser_check(ts, fieldType.c, "COMMA")
              THEN With(ZapParser_skipNewlines(ts, ZapParser_advance(ts, fieldType.c)),
                        LAMBDA c1 :
                        IF ZapParser_check(ts, c1, "RIGHT_BRACE") THEN Ok(c1, pushed)
                        ELSE StructFieldLoop(ts, ZapParser_skipNewlines(ts, c1), pushed))
              ELSE StructFieldLoop(ts, ZapParser_skipNewlines(ts, fieldType.c), pushed))))))
    ELSE Ok(c0, fields)

ZapParser_parseStructFields(ts, c) ==
    Then(ZapParser_consume(ts, c, "LEFT_BRACE", "Expected \"{\""), LAMBDA open :
    Then(StructFieldLoop(ts, open.c, <<>>), LAMBDA fields :
    Then(ZapParser_consume(ts, fields.c, "RIGHT_BRACE", "Expected \"}\""), LAMBDA close :
         Ok(close.c, [type |-> "type", subtype |-> "struct", fields |-> fields.v]))))

ZapParser_parseStructType(ts, c) ==
    Then(ZapParser_consume(ts, c, "STRUCT", "Expected \"struct\""), LAMBDA keyword :
         ZapParser_parseStructFields(ts, keyword.c))

\* The loop of parseEnumType that reads a payload whether or not a tag was given.
EnumVariantLoop_payloadAlways(ts, c0, tagField, variants) ==
    IF ~ZapParser_check(ts, c0, "RIGHT_BRACE") /\ ~ZapParser_isAtEnd(ts, c0)
    THEN With(ZapParser_skipNewlines(ts, c0), LAMBDA c :
              IF ZapParser_check(ts, c, "RIGHT_BRACE") THEN Ok(c, variants)
              ELSE
         Then(ZapParser_consume(ts, c, "IDENTIFIER", "Expected variant name"),
              LAMBDA variantName :
         With(ZapParser_check(ts, variantName.c, "LEFT_BRACE"), LAMBDA hasFields :
         Then(IF hasFields THEN ZapParser_parseStructFields(ts, variantName.c)
              ELSE Ok(variantName.c, <<>>), LAMBDA fields :
         With(Append(variants, [name |-> variantName.v.value,
                                fields |-> IF hasFields THEN <<fields.v>> ELSE <<>>]),
              LAMBDA pushed :
              IF ZapParser_check(ts, fields.c, "COMMA")
              THEN With(ZapParser_skipNewlines(ts, ZapParser_advance(ts, fields.c)),
                        LAMBDA c1 :
                        IF ZapParser_check(ts, c1, "RIGHT_BRACE") THEN Ok(c1, pushed)
                        ELSE EnumVariantLoop(ts, ZapParser_skipNewlines(ts, c1),
                                             tagField, pushed))
              ELSE EnumVariantLoop(ts, ZapParser_skipNewlines(ts, fields.c),
                                   tagField, pushed))))))
    ELSE Ok(c0, variants)

\* The while loop of parseEnumType, from its condition.  tagField is <<>>
\* or <<string>>; `tagField && ...` is false for an absent or empty tag.
EnumVariantLoop(ts, c0, tagField, variants) ==
    IF ~ZapParser_check(ts, c0, "RIGHT_BRACE") /\ ~ZapParser_isAtEnd(ts, c0)
    THEN With(ZapParser_skipNewlines(ts, c0), LAMBDA c :
              IF ZapParser_check(ts, c, "RIGHT_BRACE") THEN Ok(c, variants)
              ELSE
         Then(ZapParser_consume(ts, c, "IDENTIFIER", "Expected variant name"),
              LAMBDA variantName :
         With(tagField # <<>> /\ tagField # <<"">>
                /\ ZapParser_check(ts, variantName.c, "LEFT_BRACE"), LAMBDA hasFields :
         Then(IF hasFields THEN ZapParser_parseStructFields(ts, variantName.c)
              ELSE Ok(variantName.c, <<>>), LAMBDA fields :
         With(Append(variants, [name |-> variantName.v.value,
                                fields |-> IF hasFields THEN <<fields.v>> ELSE <<>>]),
              LAMBDA pushed :
              IF ZapParser_check(ts, fields.c, "COMMA")
              THEN With(ZapParser_skipNewlines(ts, ZapParser_advance(ts, fields.c)),
                        LAMBDA c1 :
                        IF ZapParser_check(ts, c1, "RIGHT_BRACE") THEN Ok(c1, pushed)
                        ELSE EnumVariantLoop(ts, ZapParser_skipNewlines(ts, c1),
                                             tagField, pushed))
              ELSE EnumVariantLoop(ts, ZapParser_skipNewlines(ts, fields.c),
                                   tagField, pushed))))))
    ELSE Ok(c0, variants)

\* The string a STRING_LITERAL token stands for: its value without the
\* quotes around it.
Unquoted(value) == SubSeq(value, 2, Len(value) - 1)

ZapParser_parseEnumType(ts, c) ==
    Then(ZapParser_consume(ts, c, "ENUM", "Expected \"enum\""), LAMBDA keyword :
    With(ZapParser_check(ts, keyword.c, "STRING_LITERAL"), LAMBDA tagged :
    With(IF tagged THEN <<Unquoted(ZapParser_peek(ts, keyword.c).value)>> ELSE <<>>,
         LAMBDA tagField :
    Then(ZapParser_consume(ts, IF tagged THEN ZapParser_advance(ts, keyword.c) ELSE keyword.c,
                           "LEFT_BRACE", "Expected \"{\""), LAMBDA open :
    Then(EnumVariantLoop(ts, open.c, tagField, <<>>), LAMBDA variants :
    Then(ZapParser_consume(ts, variants.c, "RIGHT_BRACE", "Expected \"}\""), LAMBDA close :
         Ok(close.c, [type |-> "type", subtype |-> "enum", tagField |-> tagField,
                      variants |-> variants.v])))))))

\* The do-while of parseVectorType that stores each component twice.
VectorComponents_pushesTwice(ts, c, components) ==
    Then(ZapParser_parseType(ts, c), LAMBDA component :
    With(Append(Append(components, component.v), component.v), LAMBDA pushed :
         IF ~ZapParser_check(ts, component.c, "COMMA") THEN Ok(component.c, pushed)
         ELSE
    With(ZapParser_advance(ts, component.c), LAMBDA c1 :
         IF ZapParser_check(ts, c1, "RIGHT_PAREN") THEN Ok(c1, pushed)
         ELSE VectorComponents(ts, c1, pushed))))

\* The do-while of parseVectorType, from the top of its body.
VectorComponents(ts, c, components) ==
    Then(ZapParser_parseType(ts, c), LAMBDA component :
    With(Append(components, component.v), LAMBDA pushed :
         IF ~ZapParser_check(ts, component.c, "COMMA") THEN Ok(component.c, pushed)
         ELSE
    With(ZapParser_advance(ts, component.c), LAMBDA c1 :
         IF ZapParser_check(ts, c1, "RIGHT_PAREN") THEN Ok(c1, pushed)
         ELSE VectorComponents(ts, c1, pushed))))

ZapParser_parseVectorType(ts, c) ==
    With(ZapParser_advance(ts, c), LAMBDA c1 :
         IF ZapParser_check(ts, c1, "LEFT_PAREN")
         THEN With(ZapParser_advance(ts, c1), LAMBDA c2 :
              Then(IF ~ZapParser_check(ts, c2, "RIGHT_PAREN")
                   THEN VectorComponents(ts, c2, <<>>)
                   ELSE Ok(c2, <<>>), LAMBDA components :
              Then(ZapParser_consume(ts, components.c, "RIGHT_PAREN", "Expected \")\""),
                   LAMBDA close :
                   Ok(close.c, [type |-> "type", subtype |-> "vector",
                                components |-> <<components.v>>]))))
         ELSE Ok(c1, [type |-> "type", subtype |-> "vector", components |-> <<>>]))

ZapParser_parseMapType(ts, c) ==
    Then(ZapParser_consume(ts, c, "MAP", "Expected \"map\""), LAMBDA keyword :
    Then(ZapParser_consume(ts, keyword.c, "LEFT_BRACE", "Expected \"{\""), LAMBDA open :
    Then(ZapParser_consume(ts, open.c, "LEFT_BRACKET", "Expected \"[\""), LAMBDA bracket :
    Then(ZapParser_parseType(ts, bracket.c), LAMBDA keyType :
    Then(ZapParser_consume(ts, keyType.c, "RIGHT_BRACKET", "Expected \"]\""),
         LAMBDA unbracket :
    Then(ZapParser_consume(ts, unbracket.c, "COLON", "Expected \":\""), LAMBDA colon :
    Then(ZapParser_parseType(ts, colon.c), LAMBDA valueType :
    Then(ZapParser_consume(ts, valueType.c, "RIGHT_BRACE", "Expected \"}\""), LAMBDA close :
         Ok(close.c, [type |-> "type", subtype |-> "map",
                      keyType |-> keyType.v, valueType |-> valueType.v])))))))))

ZapParser_parseSetType(ts, c) ==
    Then(ZapParser_consume(ts, c, "SET", "Expected \"set\""), LAMBDA keyword :
    Then(ZapParser_consume(ts, keyword.c, "LEFT_BRACE", "Expected \"{\""), LAMBDA open :
    Then(ZapParser_parseType(ts, open.c), LAMBDA elementType :
    Then(ZapParser_consume(ts, elementType.c, "RIGHT_BRACE", "Expected \"}\""),
         LAMBDA close :
         Ok(close.c, [type |-> "type", subtype |-> "set",
                      elementType |-> elementType.v])))))

\* The while (check(LEFT_BRACKET)) loop of parseOptionalType.
ArraySuffixLoop(ts, c, baseType) ==
    IF ZapParser_check(ts, c, "LEFT_BRACKET")
    THEN Then(ArraySuffix(ts, ZapParser_advance(ts, c)), LAMBDA suffix :
              ArraySuffixLoop(ts, suffix.c,
                              [type |-> "type", subtype |-> "array",
                               constraint |-> suffix.v, elementType |-> baseType]))
    ELSE Ok(c, baseType)

\* parseOptionalType that takes the question mark before the brackets.
ZapParser_parseOptionalType_questionFirst(ts, c) ==
    Then(ZapParser_parseBaseType(ts, c), LAMBDA base :
         IF ZapParser_check(ts, base.c, "QUESTION")
         THEN ArraySuffixLoop(ts, ZapParser_advance(ts, base.c),
                              [type |-> "type", subtype |-> "optional", innerType |-> base.v])
         ELSE ArraySuffixLoop(ts, base.c, base.v))

ZapParser_parseOptionalType(ts, c) ==
    Then(ZapParser_parseBaseType(ts, c), LAMBDA base :
    Then(ArraySuffixLoop(ts, base.c, base.v), LAMBDA baseType :
         IF ZapParser_check(ts, baseType.c, "QUESTION")
         THEN Ok(ZapParser_advance(ts, baseType.c),
                 [type |-> "type", subtype |-> "optional", innerType |-> baseType.v])
         ELSE baseType))

\* The while (check(PIPE)) loop of parseUnionType.
UnionLoop(ts, c, types) ==
    IF ZapParser_check(ts, c, "PIPE")
    THEN Then(ZapParser_parseOptionalType(ts, ZapParser_advance(ts, c)), LAMBDA next :
              UnionLoop(ts, next.c, Append(types, next.v)))
    ELSE Ok(c, types)

ZapParser_parseUnionType(ts, c) ==
    Then(ZapParser_parseOptionalType(ts, c), LAMBDA first :
         IF ZapParser_check(ts, first.c, "PIPE")
         THEN Then(UnionLoop(ts, first.c, <<first.v>>), LAMBDA types :
                   Ok(types.c, [type |-> "type", subtype |-> "union", types |-> types.v]))
         ELSE first)

ZapParser_parseType(ts, c) == ZapParser_parseUnionType(ts, c)

\* Writable<EventProperties> and Writable<FunctionProperties>, all absent.
NoEventProperties == [call |-> <<>>, data |-> <<>>, from |-> <<>>, type |-> <<>>]
NoFunctionProperties == [args |-> <<>>, call |-> <<>>, rets |-> <<>>]

\* The switch on propertyName in parseEvent, with the cursor after the `:`.
EventProperty(ts, c, propertyName, properties) ==
    CASE propertyName = "call" ->
            Then(ZapParser_consumeIdentifierValue(ts, c), LAMBDA identifier :
                 Ok(identifier.c, [properties EXCEPT !.call = <<identifier.v>>]))
      [] propertyName = "data" ->
            Then(ZapParser_parseType(ts, c), LAMBDA data :
                 Ok(data.c, [properties EXCEPT !.data = <<data.v>>]))
      [] propertyName = "from" ->
            Then(ZapParser_consumeIdentifierValue(ts, c), LAMBDA identifier :
                 Ok(identifier.c, [properties EXCEPT !.from = <<identifier.v>>]))
      [] propertyName = "type" ->
            Then(ZapParser_consumeIdentifierValue(ts, c), LAMBDA identifier :
                 Ok(identifier.c, [properties EXCEPT !.type = <<identifier.v>>]))
      [] OTHER -> Fail("Unknown event property: " \o propertyName)

\* The switch on propertyName in parseFunction, with the cursor after the `:`.
FunctionProperty(ts, c, propertyName, properties) ==
    CASE propertyName = "args" ->
            Then(ZapParser_parseType(ts, c), LAMBDA typeNode :
                 Ok(typeNode.c, [properties EXCEPT !.args = <<typeNode.v>>]))
      [] propertyName = "call" ->
            Then(ZapParser_consumeIdentifierValue(ts, c), LAMBDA identifier :
                 Ok(identifier.c, [properties EXCEPT !.call = <<identifier.v>>]))
      [] propertyName = "rets" ->
            Then(ZapParser_parseType(ts, c), LAMBDA typeNode :
                 Ok(typeNode.c, [properties EXCEPT !.rets = <<typeNode.v>>]))
      [] OTHER -> Fail("Unknown function property: " \o propertyName)

RECURSIVE PropertyLoop(_, _, _, _)
\* The while loop of parseEvent (isEvent) and of parseFunction, from its
\* condition.
PropertyLoop(ts, c0, isEvent, properties) ==
    IF ~ZapParser_check(ts, c0, "RIGHT_BRACE") /\ ~ZapParser_isAtEnd(ts, c0)
    THEN With(ZapParser_skipNewlines(ts, c0), LAMBDA c :
              IF ZapParser_check(ts, c, "RIGHT_BRACE") THEN Ok(c, properties)
              ELSE
         Then(ZapParser_consumePropertyName(ts, c), LAMBDA propertyName :
         Then(ZapParser_consume(ts, propertyName.c, "COLON", "Expected \":\""), LAMBDA colon :
         Then(IF isEvent
              THEN EventProperty(ts, colon.c, propertyName.v, properties)
              ELSE FunctionProperty(ts, colon.c, propertyName.v, properties),
              LAMBDA property :
              PropertyLoop(ts,
                           ZapParser_skipNewlines(ts,
                               IF ZapParser_check(ts, property.c, "COMMA")
                               THEN ZapParser_advance(ts, property.c) ELSE property.c),
                           isEvent, property.v)))))
    ELSE Ok(c0, properties)

\* `keyword <Name> = {` with newlines allowed after the `=`: the opening of
\* parseEvent, parseFunction and parseNamespace.  The value is the name.
BlockHeader(ts, c, keywordType, keywordMessage, nameMessage) ==
    Then(ZapParser_consume(ts, c, keywordType, keywordMessage), LAMBDA keyword :
    Then(ZapParser_consume(ts, keyword.c, "IDENTIFIER", nameMessage), LAMBDA name :
    Then(ZapParser_consume(ts, name.c, "EQUALS", "Expected \"=\""), LAMBDA equals :
    Then(ZapParser_consume(ts, ZapParser_skipNewlines(ts, equals.c),
                           "LEFT_BRACE", "Expected \"{\""), LAMBDA open :
         Ok(open.c, name.v.value)))))

ZapParser_parseEvent(ts, c) ==
    Then(BlockHeader(ts, c, "EVENT", "Expected \"event\"", "Expected event name"),
         LAMBDA header :
    Then(PropertyLoop(ts, header.c, TRUE, NoEventProperties), LAMBDA properties :
    Then(ZapParser_consume(ts, properties.c, "RIGHT_BRACE", "Expected \"}\""), LAMBDA close :
         Ok(close.c, [type |-> "event", name |-> header.v, properties |-> properties.v]))))

ZapParser_parseFunction(ts, c) ==
    Then(BlockHeader(ts, c, "FUNCT", "Expected \"funct\"", "Expected function name"),
         LAMBDA header :
    Then(PropertyLoop(ts, header.c, FALSE, NoFunctionProperties), LAMBDA properties :
    Then(ZapParser_consume(ts, properties.c, "RIGHT_BRACE", "Expected \"}\""), LAMBDA close :
         Ok(close.c, [type |-> "function", name |-> header.v,
                      properties |-> properties.v]))))

RECURSIVE NamespaceMemberLoop(_, _, _)
\* The loop of parseNamespace that puts each member before the earlier ones.
NamespaceMemberLoop_newestFirst(ts, c0, members) ==
    IF ~ZapParser_check(ts, c0, "RIGHT_BRACE") /\ ~ZapParser_isAtEnd(ts, c0)
    THEN With(ZapParser_skipNewlines(ts, c0), LAMBDA c :
              IF ZapParser_check(ts, c, "RIGHT_BRACE") THEN Ok(c, members)
              ELSE
         Then(IF ZapParser_check(ts, c, "COMMENT") THEN ZapParser_parseComment(ts, c)
              ELSE IF ZapParser_check(ts, c, "EVENT") THEN ZapParser_parseEvent(ts, c)
              ELSE IF ZapParser_check(ts, c, "FUNCT") THEN ZapParser_parseFunction(ts, c)
              ELSE Fail("Unexpected token in namespace: '"
                        \o ZapParser_getTokenTypeName(ZapParser_peek(ts, c).type) \o "'"),
              LAMBDA member :
              NamespaceMemberLoop(ts, ZapParser_skipNewlines(ts, member.c),
                                  <<member.v>> \o members)))
    ELSE Ok(c0, members)

\* The while loop of parseNamespace, from its condition.
NamespaceMemberLoop(ts, c0, members) ==
    IF ~ZapParser_check(ts, c0, "RIGHT_BRACE") /\ ~ZapParser_isAtEnd(ts, c0)
    THEN With(ZapParser_skipNewlines(ts, c0), LAMBDA c :
              IF ZapParser_check(ts, c, "RIGHT_BRACE") THEN Ok(c, members)
              ELSE
         Then(IF ZapParser_check(ts, c, "COMMENT") THEN ZapParser_parseComment(ts, c)
              ELSE IF ZapParser_check(ts, c, "EVENT") THEN ZapParser_parseEvent(ts, c)
              ELSE IF ZapParser_check(ts, c, "FUNCT") THEN ZapParser_parseFunction(ts, c)
              ELSE Fail("Unexpected token in namespace: '"
                        \o ZapParser_getTokenTypeName(ZapParser_peek(ts, c).type) \o "'"),
              LAMBDA member :
              NamespaceMemberLoop(ts, ZapParser_skipNewlines(ts, member.c),
                                  Append(members, member.v))))
    ELSE Ok(c0, members)

ZapParser_parseNamespace(ts, c) ==
    Then(BlockHeader(ts, c, "NAMESPACE", "Expected \"namespace\"", "Expected namespace name"),
         LAMBDA header :
    Then(NamespaceMemberLoop(ts, header.c, <<>>), LAMBDA members :
    Then(ZapParser_consume(ts, members.c, "RIGHT_BRACE", "Expected \"}\""), LAMBDA close :
         Ok(close.c, [type |-> "namespace", name |-> header.v, members |-> members.v]))))

ZapParser_parseTypeDefinition(ts, c) ==
    Then(ZapParser_consume(ts, c, "TYPE", "Expected \"type\""), LAMBDA keyword :
    Then(ZapParser_consume(ts, keyword.c, "IDENTIFIER", "Expected type name"), LAMBDA name :
    Then(ZapParser_consume(ts, name.c, "EQUALS", "Expected \"=\""), LAMBDA equals :
    Then(ZapParser_parseType(ts, equals.c), LAMBDA definition :
         Ok(definition.c, [type |-> "typeDefinition", name |-> name.v.value,
                           definition |-> definition.v])))))

\* The ZapConfigurationNode parse returns.
Configuration(options, items) == [type |-> "config", items |-> items, options |-> options]

RECURSIVE ParseLoopUpTo(_, _, _, _, _)
\* The while (!isAtEnd()) loop of parse, from its condition.
ParseLoopUpTo(ts, c0, options, items, iterations) ==
    IF iterations > 0 /\ ~ZapParser_isAtEnd(ts, c0)
    THEN With(ZapParser_skipNewlines(ts, c0), LAMBDA c :
              IF ZapParser_isAtEnd(ts, c) THEN Ok(c, Configuration(options, items))
              ELSE
         With(ZapParser_peek(ts, c).type, LAMBDA tokenType :
         Then(CASE tokenType = "COMMENT" -> ZapParser_parseComment(ts, c)
                [] tokenType = "EVENT" -> ZapParser_parseEvent(ts, c)
                [] tokenType = "FUNCT" -> ZapParser_parseFunction(ts, c)
                [] tokenType = "NAMESPACE" -> ZapParser_parseNamespace(ts, c)
                [] tokenType = "OPT" -> ZapParser_parseOption(ts, c)
                [] tokenType = "TYPE" -> ZapParser_parseTypeDefinition(ts, c)
                [] OTHER -> Fail("Unexpected token " \o GotAtLine(ts, c)),
              LAMBDA node :
              IF tokenType = "OPT"
              THEN ParseLoopUpTo(ts, ZapParser_skipNewlines(ts, node.c),
                                 Append(options, node.v), items, iterations - 1)
              ELSE ParseLoopUpTo(ts, ZapParser_skipNewlines(ts, node.c),
                                 options, Append(items, node.v), iterations - 1))))
    ELSE Ok(c0, Configuration(options, items))

RECURSIVE ParseLoop(_, _, _, _)
\* The while loop of parse to its end, four iterations at a time.
ParseLoop(ts, c0, options, items) ==
    Then(ParseLoopUpTo(ts, c0, options, items, 4), LAMBDA r :
         IF ~ZapParser_isAtEnd(ts, r.c)
         THEN ParseLoop(ts, r.c, r.v.options, r.v.items)
         ELSE r)

\* new ZapParser(tokens): WHITESPACE tokens are filtered out.
ZapParser_constructor(tokens) == SelectSeq(tokens, LAMBDA token : token.type # "WHITESPACE")

\* A sequence back to front.
Reversed(sequence) == [i \in 1..Len(sequence) |-> sequence[Len(sequence) + 1 - i]]

\* ZapParser_parse with each option put in front of the earlier ones.
ZapParser_parse_optionsReversed(tokens) ==
    Then(ParseLoop(ZapParser_constructor(tokens), 0, <<>>, <<>>), LAMBDA r :
         Ok(r.c, [r.v EXCEPT !.options = Reversed(r.v.options)]))

ZapParser_parse(tokens) == ParseLoop(ZapParser_constructor(tokens), 0, <<>>, <<>>)

(***************************************************************************)
(* Formatter.  indentLevel is the formatter's private counter at the time  *)
(* of the call; every method leaves it as it found it.                     *)
(***************************************************************************)

WIDTH_THRESHOLD == 120

RECURSIVE Join(_, _)
\* Array.prototype.join
Join(lines, separator) ==
    IF lines = <<>> THEN ""
    ELSE IF Len(lines) = 1 THEN lines[1]
    ELSE lines[1] \o separator \o Join(Tail(lines), separator)

RECURSIVE Repeat(_, _)
\* String.prototype.repeat
Repeat(text, count) == IF count = 0 THEN "" ELSE text \o Repeat(text, count - 1)

ZapFormatter_getIndent(indentLevel) == Repeat("\t", indentLevel)

RECURSIVE HasNonWord(_)
\* ALPHANUMERIC_REGEX.test(value): some character outside [a-zA-Z0-9_].
HasNonWord(value) ==
    IF value = "" THEN FALSE
    ELSE IF ~isAlphaNumeric(Head(value)) THEN TRUE ELSE HasNonWord(Tail(value))

ZapFormatter_formatOptionValue(value) ==
    IF value.t = "string"
    THEN IF StartsWith(value.s, "\"") /\ EndsWith(value.s, "\"") THEN value.s
         ELSE IF HasNonWord(value.s) /\ ~Includes(value.s, "(") THEN "\"" \o value.s \o "\""
         ELSE value.s
    ELSE IF value.t = "number" THEN NumberToString(value.n)
    ELSE IF value.b THEN "true" ELSE "false"

ZapFormatter_formatOption(optionNode) ==
    "opt " \o optionNode.key \o " = " \o ZapFormatter_formatOptionValue(optionNode.value)

ZapFormatter_formatRangeConstraint(rangeConstraint) ==
    IF rangeConstraint.min # <<>> /\ rangeConstraint.max # <<>>
    THEN IF rangeConstraint.min[1] = rangeConstraint.max[1]
         THEN NumberToString(rangeConstraint.min[1])
         ELSE NumberToString(rangeConstraint.min[1]) \o ".." \o NumberToString(rangeConstraint.max[1])
    ELSE IF rangeConstraint.min # <<>> THEN NumberToString(rangeConstraint.min[1]) \o ".."
    ELSE IF rangeConstraint.max # <<>> THEN ".." \o NumberToString(rangeConstraint.max[1])
    ELSE ".."

ZapFormatter_formatConstraint(rangeConstraint) ==
    "(" \o ZapFormatter_formatRangeConstraint(rangeConstraint) \o ")"

ZapFormatter_formatPrimitiveType(primitiveTypeNode) ==
    IF primitiveTypeNode.constraint # <<>>
    THEN primitiveTypeNode.name \o ZapFormatter_formatConstraint(primitiveTypeNode.constraint[1])
    ELSE primitiveTypeNode.name

ZapFormatter_formatInstanceType(instanceTypeNode) ==
    IF instanceTypeNode.className # <<>> /\ instanceTypeNode.className # <<"">>
    THEN "Instance." \o instanceTypeNode.className[1]
    ELSE "Instance"

\* index < length - 1 ? "," : ""
CommaUnlessLast(index, length) == IF index < length THEN "," ELSE ""

RECURSIVE ZapFormatter_formatType(_, _)
RECURSIVE ZapFormatter_formatStructType(_, _)
RECURSIVE ZapFormatter_formatEnumType(_, _)
RECURSIVE ZapFormatter_formatTupleType(_, _)

ZapFormatter_formatArrayType(arrayTypeNode, indentLevel) ==
    IF arrayTypeNode.constraint # <<>>
    THEN ZapFormatter_formatType(arrayTypeNode.elementType, indentLevel) \o "[]"
            \o ZapFormatter_formatRangeConstraint(arrayTypeNode.constraint[1])
    ELSE ZapFormatter_formatType(arrayTypeNode.elementType, indentLevel) \o "[]"

ZapFormatter_formatMapType(mapTypeNode, indentLevel) ==
    "map {[" \o ZapFormatter_formatType(mapTypeNode.keyType, indentLevel) \o "]: "
        \o ZapFormatter_formatType(mapTypeNode.valueType, indentLevel) \o "}"

ZapFormatter_formatSetType(setTypeNode, indentLevel) ==
    "set {" \o ZapFormatter_formatType(setTypeNode.elementType, indentLevel) \o "}"

ZapFormatter_formatOptionalType(optionalTypeNode, indentLevel) ==
    ZapFormatter_formatType(optionalTypeNode.innerType, indentLevel) \o "?"

ZapFormatter_formatUnionType(unionTypeNode, indentLevel) ==
    Join([i \in 1..Len(unionTypeNode.types) |->
            ZapFormatter_formatType(unionTypeNode.types[i], indentLevel)], " | ")

\* formatVectorType that takes an empty component list as no list.
ZapFormatter_formatVectorType_bareWhenEmpty(vectorTypeNode, indentLevel) ==
    IF vectorTypeNode.components # <<>> /\ Len(vectorTypeNode.components[1]) > 0
    THEN "vector(" \o Join([i \in 1..Len(vectorTypeNode.components[1]) |->
                              ZapFormatter_formatType(vectorTypeNode.components[1][i], indentLevel)],
                           ", ") \o ")"
    ELSE "Vector3"

ZapFormatter_formatVectorType(vectorTypeNode, indentLevel) ==
    IF vectorTypeNode.components # <<>>
    THEN "vector(" \o Join([i \in 1..Len(vectorTypeNode.components[1]) |->
                              ZapFormatter_formatType(vectorTypeNode.components[1][i], indentLevel)],
                           ", ") \o ")"
    ELSE "Vector3"

\* FitsInline with a strict comparison.
FitsInline_strict(inlineFormat) == Len(inlineFormat) < WIDTH_THRESHOLD

\* inlineFormat.length <= WIDTH_THRESHOLD
FitsInline(inlineFormat) == Len(inlineFormat) <= WIDTH_THRESHOLD

ZapFormatter_formatStructType(structTypeNode, indentLevel) ==
    LET count == Len(structTypeNode.fields)
        Field(i) == structTypeNode.fields[i].name \o ": "
                        \o ZapFormatter_formatType(structTypeNode.fields[i].type, indentLevel)
        inlineFormat == "struct {" \o Join([i \in 1..count |-> Field(i)], ", ") \o "}"
    IN  IF FitsInline(inlineFormat) THEN inlineFormat
        ELSE Join(<<"struct {">>
                  \o [i \in 1..count |-> "\t" \o Field(i) \o CommaUnlessLast(i, count)]
                  \o <<"}">>, "\n")

ZapFormatter_formatEnumType(enumTypeNode, indentLevel) ==
    LET tagged == enumTypeNode.tagField # <<>> /\ enumTypeNode.tagField # <<"">>
        result == IF tagged THEN "enum \"" \o enumTypeNode.tagField[1] \o "\"" ELSE "enum"
        count == Len(enumTypeNode.variants)
        someFields == \E i \in 1..count : enumTypeNode.variants[i].fields # <<>>
        inlineFormat == result \o " {"
                            \o Join([i \in 1..count |-> enumTypeNode.variants[i].name], ", ") \o "}"
        VariantLines(i) ==
            LET variant == enumTypeNode.variants[i]
                variantLine == "\t" \o variant.name
                    \o (IF variant.fields # <<>>
                        THEN " " \o ZapFormatter_formatStructType(variant.fields[1], indentLevel)
                        ELSE "")
                    \o CommaUnlessLast(i, count)
            IN  IF tagged /\ variant.fields # <<>> /\ i < count
                THEN <<variantLine, "">> ELSE <<variantLine>>
        Lines[i \in 0..count] == IF i = 0 THEN <<result \o " {">> ELSE Lines[i - 1] \o VariantLines(i)
    IN  IF ~tagged /\ ~someFields /\ FitsInline(inlineFormat) THEN inlineFormat
        ELSE Join(Lines[count] \o <<"}">>, "\n")

ZapFormatter_formatTupleType(tupleTypeNode, indentLevel) ==
    LET count == Len(tupleTypeNode.elements)
        elements == [i \in 1..count |->
            IF tupleTypeNode.elements[i].name # <<>>
            THEN tupleTypeNode.elements[i].name[1] \o ": "
                    \o ZapFormatter_formatType(tupleTypeNode.elements[i].type, indentLevel)
            ELSE ZapFormatter_formatType(tupleTypeNode.elements[i].type, indentLevel)]
        inlineFormat == "(" \o Join(elements, ", ") \o ")"
        elementIndent == ZapFormatter_getIndent(indentLevel + 1)
    IN  IF FitsInline(inlineFormat) THEN inlineFormat
        ELSE Join(<<"(">>
                  \o [i \in 1..count |-> elementIndent \o elements[i] \o CommaUnlessLast(i, count)]
                  \o <<ZapFormatter_getIndent(indentLevel) \o ")">>, "\n")

\* FormatTypeCases without the case for vector types.
FormatTypeCases_withoutVector ==
    {"array", "enum", "instance", "map", "optional", "primitive", "set", "struct",
     "tuple", "union"}

\* The cases of the switch in formatType.
FormatTypeCases ==
    {"array", "enum", "instance", "map", "optional", "primitive", "set", "struct",
     "tuple", "union", "vector"}

ZapFormatter_formatType(typeNode, indentLevel) ==
    CASE typeNode.subtype = "array" -> ZapFormatter_formatArrayType(typeNode, indentLevel)
      [] typeNode.subtype = "enum" -> ZapFormatter_formatEnumType(typeNode, indentLevel)
      [] typeNode.subtype = "instance" -> ZapFormatter_formatInstanceType(typeNode)
      [] typeNode.subtype = "map" -> ZapFormatter_formatMapType(typeNode, indentLevel)
      [] typeNode.subtype = "optional" -> ZapFormatter_formatOptionalType(typeNode, indentLevel)
      [] typeNode.subtype = "primitive" -> ZapFormatter_formatPrimitiveType(typeNode)
      [] typeNode.subtype = "set" -> ZapFormatter_formatSetType(typeNode, indentLevel)
      [] typeNode.subtype = "struct" -> ZapFormatter_formatStructType(typeNode, indentLevel)
      [] typeNode.subtype = "tuple" -> ZapFormatter_formatTupleType(typeNode, indentLevel)
      [] typeNode.subtype = "union" -> ZapFormatter_formatUnionType(typeNode, indentLevel)
      [] typeNode.subtype = "vector" -> ZapFormatter_formatVectorType(typeNode, indentLevel)

\* The `if (properties.x) lines[length++] = ...` lines of formatEvent and
\* formatFunction: nothing for an absent property.
PropertyLine(propertyIndent, key, rendered) ==
    IF rendered = <<>> THEN <<>> ELSE <<propertyIndent \o key \o ": " \o rendered[1] \o ",">>

\* An optional type node rendered, still <<>> when absent.
RenderedType(typeNode, indentLevel) ==
    IF typeNode = <<>> THEN <<>> ELSE <<ZapFormatter_formatType(typeNode[1], indentLevel)>>

\* formatEvent that emits call before from and type.
ZapFormatter_formatEvent_callFirst(eventNode, indentLevel) ==
    LET indent == ZapFormatter_getIndent(indentLevel)
        propertyIndent == ZapFormatter_getIndent(indentLevel + 1)
        properties == eventNode.properties
    IN  Join(<<indent \o "event " \o eventNode.name \o " = {">>
             \o PropertyLine(propertyIndent, "call", properties.call)
             \o PropertyLine(propertyIndent, "from", properties.from)
             \o PropertyLine(propertyIndent, "type", properties.type)
             \o PropertyLine(propertyIndent, "data", RenderedType(properties.data, indentLevel + 1))
             \o <<indent \o "}">>, "\n")

ZapFormatter_formatEvent(eventNode, indentLevel) ==
    LET indent == ZapFormatter_getIndent(indentLevel)
        propertyIndent == ZapFormatter_getIndent(indentLevel + 1)
        properties == eventNode.properties
    IN  Join(<<indent \o "event " \o eventNode.name \o " = {">>
             \o PropertyLine(propertyIndent, "from", properties.from)
             \o PropertyLine(propertyIndent, "type", properties.type)
             \o PropertyLine(propertyIndent, "call", properties.call)
             \o PropertyLine(propertyIndent, "data", RenderedType(properties.data, indentLevel + 1))
             \o <<indent \o "}">>, "\n")

ZapFormatter_formatFunction(functionNode, indentLevel) ==
    LET indent == ZapFormatter_getIndent(indentLevel)
        propertyIndent == ZapFormatter_getIndent(indentLevel + 1)
        properties == functionNode.properties
    IN  Join(<<indent \o "funct " \o functionNode.name \o " = {">>
             \o PropertyLine(propertyIndent, "call", properties.call)
             \o PropertyLine(propertyIndent, "args", RenderedType(properties.args, indentLevel + 1))
             \o PropertyLine(propertyIndent, "rets", RenderedType(properties.rets, indentLevel + 1))
             \o <<indent \o "}">>, "\n")

ZapFormatter_formatTypeDefinition(typeDefinitionNode, indentLevel) ==
    ZapFormatter_getIndent(indentLevel) \o "type " \o typeDefinitionNode.name \o " = "
        \o ZapFormatter_formatType(typeDefinitionNode.definition, indentLevel)

\* formatted.replace(COMMENT_REGEX, "--")
ReplaceCommentMarker(formatted) ==
    IF StartsWith(formatted, "--") THEN "--" \o SubSeq(formatted, 3, Len(formatted))
    ELSE formatted

\* The cases of the switch in formatItem.
FormatItemCases == {"comment", "event", "function", "namespace", "typeDefinition"}

RECURSIVE ZapFormatter_formatItem(_, _)

ZapFormatter_formatNamespace(namespaceNode, indentLevel) ==
    LET count == Len(namespaceNode.members)
        MemberLines(i) ==
            LET member == namespaceNode.members[i]
                formatted == ZapFormatter_formatItem(member, indentLevel + 1)
                line == IF member.type = "comment"
                        THEN ZapFormatter_getIndent(indentLevel + 1) \o ReplaceCommentMarker(formatted)
                        ELSE formatted
            IN  IF i < count /\ (member.type # "comment"
                                 \/ namespaceNode.members[i + 1].type # "comment")
                THEN <<line, "">> ELSE <<line>>
        Lines[i \in 0..count] ==
            IF i = 0
            THEN <<ZapFormatter_getIndent(indentLevel) \o "namespace " \o namespaceNode.name \o " = {">>
            ELSE Lines[i - 1] \o MemberLines(i)
    IN  Join(Lines[count] \o <<ZapFormatter_getIndent(indentLevel) \o "}">>, "\n")

ZapFormatter_formatItem(item, indentLevel) ==
    CASE item.type = "comment" -> item.text
      [] item.type = "event" -> ZapFormatter_formatEvent(item, indentLevel)
      [] item.type = "function" -> ZapFormatter_formatFunction(item, indentLevel)
      [] item.type = "namespace" -> ZapFormatter_formatNamespace(item, indentLevel)
      [] item.type = "typeDefinition" -> ZapFormatter_formatTypeDefinition(item, indentLevel)

RECURSIVE UnknownInType(_)
RECURSIVE FirstUnknown(_)

\* The type nodes formatType is called on while rendering typeNode, in order.
TypeChildren(typeNode) ==
    CASE typeNode.subtype = "array" -> <<typeNode.elementType>>
      [] typeNode.subtype = "enum" ->
            LET Fields[i \in 0..Len(typeNode.variants)] ==
                    IF i = 0 THEN <<>> ELSE Fields[i - 1] \o typeNode.variants[i].fields
            IN  Fields[Len(typeNode.variants)]
      [] typeNode.subtype = "map" -> <<typeNode.keyType, typeNode.valueType>>
      [] typeNode.subtype = "optional" -> <<typeNode.innerType>>
      [] typeNode.subtype = "set" -> <<typeNode.elementType>>
      [] typeNode.subtype = "struct" -> [i \in 1..Len(typeNode.fields) |-> typeNode.fields[i].type]
      [] typeNode.subtype = "tuple" -> [i \in 1..Len(typeNode.elements) |-> typeNode.elements[i].type]
      [] typeNode.subtype = "union" -> typeNode.types
      [] typeNode.subtype = "vector" ->
            IF typeNode.components = <<>> THEN <<>> ELSE typeNode.components[1]
      [] OTHER -> <<>>

\* The message of the Error formatType throws while rendering typeNode: ""
\* when every discriminant it meets has a case.
UnknownInType(typeNode) ==
    IF typeNode.subtype \notin FormatTypeCases
    THEN "Unknown type subtype: " \o typeNode.subtype
    ELSE FirstUnknown(TypeChildren(typeNode))

\* The items and type nodes formatItem and formatType are called on while
\* rendering item, in order.
ItemChildren(item) ==
    CASE item.type = "event" -> item.properties.data
      [] item.type = "function" -> item.properties.args \o item.properties.rets
      [] item.type = "namespace" -> item.members
      [] item.type = "typeDefinition" -> <<item.definition>>
      [] OTHER -> <<>>

\* The first Error thrown while rendering nodes, "" when there is none.
FirstUnknown(nodes) ==
    IF Len(nodes) = 0 THEN ""
    ELSE LET node == nodes[1]
             here == IF node.type = "type" THEN UnknownInType(node)
                     ELSE IF node.type \notin FormatItemCases
                          THEN "Unknown item type: " \o node.type
                          ELSE FirstUnknown(ItemChildren(node))
         IN  IF here # "" THEN here ELSE FirstUnknown(Tail(nodes))

\* format() that separates a comment from what follows it as it does any item.
ZapFormatter_format_blankAfterComment(zapConfigurationNode) ==
    LET options == zapConfigurationNode.options
        items == zapConfigurationNode.items
        count == Len(items)
        unknown == FirstUnknown(items)
        ItemLines(i) ==
            IF i < count
            THEN <<ZapFormatter_formatItem(items[i], 0), "">>
            ELSE <<ZapFormatter_formatItem(items[i], 0)>>
        Lines[i \in 0..count] ==
            IF i = 0
            THEN IF Len(options) > 0
                 THEN [k \in 1..Len(options) |-> ZapFormatter_formatOption(options[k])]
                        \o (IF count > 0 THEN <<"">> ELSE <<>>)
                 ELSE <<>>
            ELSE Lines[i - 1] \o ItemLines(i)
    IN  IF unknown # "" THEN [ok |-> FALSE, text |-> "", message |-> unknown]
        ELSE [ok |-> TRUE, text |-> Join(Lines[count], "\n"), message |-> ""]

\* format(): the returned string, or the Error a formatItem or formatType
\* default branch throws.
ZapFormatter_format(zapConfigurationNode) ==
    LET options == zapConfigurationNode.options
        items == zapConfigurationNode.items
        count == Len(items)
        unknown == FirstUnknown(items)
        ItemLines(i) ==
            IF i < count /\ items[i].type # "comment"
            THEN <<ZapFormatter_formatItem(items[i], 0), "">>
            ELSE <<ZapFormatter_formatItem(items[i], 0)>>
        Lines[i \in 0..count] ==
            IF i = 0
            THEN IF Len(options) > 0
                 THEN [k \in 1..Len(options) |-> ZapFormatter_formatOption(options[k])]
                        \o (IF count > 0 THEN <<"">> ELSE <<>>)
                 ELSE <<>>
            ELSE Lines[i - 1] \o ItemLines(i)
    IN  IF unknown # "" THEN [ok |-> FALSE, text |-> "", message |-> unknown]
        ELSE [ok |-> TRUE, text |-> Join(Lines[count], "\n"), message |-> ""]

\* The value of this.indentLevel after the writes, indentLevel before them.
LevelAfter(writes, indentLevel) ==
    IF Len(writes) = 0 THEN indentLevel ELSE writes[Len(writes)]

\* inlineFormat of formatTupleType, the elements rendered at indentLevel.
TupleInlineFormat(tupleTypeNode, indentLevel) ==
    "(" \o Join([i \in 1..Len(tupleTypeNode.elements) |->
                   IF tupleTypeNode.elements[i].name # <<>>
                   THEN tupleTypeNode.elements[i].name[1] \o ": "
                          \o ZapFormatter_formatType(tupleTypeNode.elements[i].type, indentLevel)
                   ELSE ZapFormatter_formatType(tupleTypeNode.elements[i].type, indentLevel)],
                 ", ") \o ")"

RECURSIVE IndentWrites(_, _)

\* `this.indentLevel += 1`, the rendering of the children, and
\* `this.indentLevel -= 1` on what the children left.
IndentWrites_block(children, indentLevel) ==
    With(IndentWrites(children, indentLevel + 1), LAMBDA inner :
         <<indentLevel + 1>> \o inner \o <<LevelAfter(inner, indentLevel + 1) - 1>>)

\* formatEvent: the values it and its callees assign to this.indentLevel.
IndentWrites_formatEvent(eventNode, indentLevel) ==
    IndentWrites_block(eventNode.properties.data, indentLevel)

\* formatFunction: the values it and its callees assign to this.indentLevel.
IndentWrites_formatFunction(functionNode, indentLevel) ==
    IndentWrites_block(functionNode.properties.args \o functionNode.properties.rets, indentLevel)

\* formatNamespace: the values it and its callees assign to this.indentLevel.
IndentWrites_formatNamespace(namespaceNode, indentLevel) ==
    IndentWrites_block(namespaceNode.members, indentLevel)

\* formatTupleType that leaves the multi-line branch without
\* `this.indentLevel -= 1`.
IndentWrites_formatTupleType_staysDeeper(tupleTypeNode, indentLevel) ==
    With(IndentWrites(TypeChildren(tupleTypeNode), indentLevel), LAMBDA inner :
    With(LevelAfter(inner, indentLevel), LAMBDA level :
         IF FitsInline(TupleInlineFormat(tupleTypeNode, level)) THEN inner
         ELSE inner \o <<level + 1>>))

\* formatTupleType: the elements are rendered first; the multi-line branch
\* then has `this.indentLevel += 1` and `this.indentLevel -= 1`.
IndentWrites_formatTupleType(tupleTypeNode, indentLevel) ==
    With(IndentWrites(TypeChildren(tupleTypeNode), indentLevel), LAMBDA inner :
    With(LevelAfter(inner, indentLevel), LAMBDA level :
         IF FitsInline(TupleInlineFormat(tupleTypeNode, level)) THEN inner
         ELSE inner \o <<level + 1, (level + 1) - 1>>))

\* The values formatItem or formatType and its callees assign to
\* this.indentLevel while rendering the node.
IndentWrites_node(node, indentLevel) ==
    IF node.type = "type"
    THEN IF node.subtype = "tuple" THEN IndentWrites_formatTupleType(node, indentLevel)
         ELSE IndentWrites(TypeChildren(node), indentLevel)
    ELSE CASE node.type = "event" -> IndentWrites_formatEvent(node, indentLevel)
           [] node.type = "function" -> IndentWrites_formatFunction(node, indentLevel)
           [] node.type = "namespace" -> IndentWrites_formatNamespace(node, indentLevel)
           [] node.type = "typeDefinition" -> IndentWrites(<<node.definition>>, indentLevel)
           [] OTHER -> <<>>

\* The values assigned to this.indentLevel while the nodes are rendered one
\* after the other, in order; the counter is at indentLevel before the first.
IndentWrites(nodes, indentLevel) ==
    IF Len(nodes) = 0 THEN <<>>
    ELSE With(IndentWrites_node(nodes[1], indentLevel), LAMBDA first :
              first \o IndentWrites(Tail(nodes), LevelAfter(first, indentLevel)))

(***************************************************************************)
(* Entry points and the state machine.  A run takes one source text and    *)
(* calls validate(source), then format(source), then format on the string  *)
(* that format returned.  Within a call the lexer's scanning loop is one   *)
(* step per iteration; parse and the formatter are one step each.          *)
(***************************************************************************)

VARIABLES
    source,      \* the text the run is about
    variant,     \* which ZapLexer is in use: "chars" or "bytes"
    call,        \* the entry point running: "validate", "format", "reformat"
    pc,          \* where the call is: "tokenize", "parse", "format", "returned"
    input,       \* the lexer's input
    position,    \* the lexer's position, 0-based
    line,        \* the lexer's line
    column,      \* the lexer's column
    tokens,      \* the lexer's token array
    starts,      \* history: the offset of the first character of each token
    iterations,  \* history: iterations of the scanning loop in this call
    lexed,       \* per call: <<the token array tokenize returned>>
    asts,        \* per call: <<the configuration node parse returned>>
    raised,      \* history, per call: the Errors thrown, [stage, message]
    results      \* per call: what the entry point returned or threw

vars == <<source, variant, call, pc, input, position, line, column, tokens,
          starts, iterations, lexed, asts, raised, results>>

\* Iterations of the scanning loop that a run follows past the length of
\* the input.
MaxSpin == 2

Calls == {"validate", "format", "reformat"}

NoResult == [kind |-> "none", isValid |-> FALSE, text |-> ""]

\* validate: return { isValid: true }
ValidateReturn == [kind |-> "return", isValid |-> TRUE, text |-> ""]

\* ValidateCatch that lets the Error through.
ValidateCatch_rethrows(message) == [kind |-> "throw", isValid |-> FALSE, text |-> message]

\* validate: catch (error) { return { error: error.message, isValid: false } }
ValidateCatch(message) == [kind |-> "return", isValid |-> FALSE, text |-> message]

\* format: return new ZapFormatter().format(zapConfigurationNode)
FormatReturn(text) == [kind |-> "return", isValid |-> FALSE, text |-> text]

\* FormatCatch that rethrows the Error as it caught it.
FormatCatch_unwrapped(message) == [kind |-> "throw", isValid |-> FALSE, text |-> message]

\* format: catch (error) { throw new Error(`Zap formatting error: ${error.message}`) }
FormatCatch(message) ==
    [kind |-> "throw", isValid |-> FALSE, text |-> "Zap formatting error: " \o message]

\* The catch block of the entry point that is running.
Catch(entry, message) ==
    IF entry = "validate" THEN ValidateCatch(message) ELSE FormatCatch(message)

LexerNow == [position |-> position, line |-> line, column |-> column]

SkipWhitespaceOf(lexer, s, L) ==
    IF lexer = "bytes" THEN ZapLexerBytes_skipWhitespace(s, L) ELSE ZapLexer_skipWhitespace(s, L)

\* A thrown Error reaches the catch block of the running entry point.
Throw(stage, message) ==
    /\ raised' = [raised EXCEPT ![call] = Append(@, [stage |-> stage, message |-> message])]
    /\ results' = [results EXCEPT ![call] = Catch(call, message)]
    /\ pc' = "returned"

\* One iteration of `while (this.position < this.input.length)` in tokenize.
NextToken ==
    /\ pc = "tokenize"
    /\ position < Len(input)
    /\ iterations < Len(input) + MaxSpin
    /\ iterations' = iterations + 1
    /\ LET r == NextTokenOf(variant, input, LexerNow)
       IN  IF r.kind = "throw"
           THEN /\ Throw("lex", r.message)
                /\ UNCHANGED <<position, line, column, tokens, starts>>
           ELSE /\ position' = r.L.position
                /\ line' = r.L.line
                /\ column' = r.L.column
                /\ tokens' = IF r.kind = "token" THEN Append(tokens, r.token) ELSE tokens
                /\ starts' = IF r.kind = "token"
                             THEN Append(starts, SkipWhitespaceOf(variant, input, LexerNow).position)
                             ELSE starts
                /\ UNCHANGED <<pc, raised, results>>
    /\ UNCHANGED <<source, variant, call, input, lexed, asts>>

\* The scanning loop ends: the EOF token is appended and tokenize returns.
TokenizeReturn ==
    /\ pc = "tokenize"
    /\ position >= Len(input)
    /\ tokens' = Append(tokens, Token("EOF", "", line, column))
    /\ lexed' = [lexed EXCEPT ![call] = <<tokens'>>]
    /\ pc' = "parse"
    /\ UNCHANGED <<source, variant, call, input, position, line, column, starts,
                   iterations, asts, raised, results>>

\* What the entry point does with r, the outcome of parse: the Error goes
\* to its catch block, validate returns, format goes on to the formatter.
Parsed(r) ==
    IF ~r.ok
    THEN Throw("parse", r.message) /\ UNCHANGED asts
    ELSE /\ asts' = [asts EXCEPT ![call] = <<r.v>>]
         /\ IF call = "validate"
            THEN /\ results' = [results EXCEPT ![call] = ValidateReturn]
                 /\ pc' = "returned"
            ELSE /\ pc' = "format"
                 /\ UNCHANGED results
         /\ UNCHANGED raised

\* new ZapParser(tokens).parse()
Parse ==
    /\ pc = "parse"
    /\ Parsed(ZapParser_parse(tokens))
    /\ UNCHANGED <<source, variant, call, input, position, line, column, tokens,
                   starts, iterations, lexed>>

\* What format does with r, the outcome of the formatter: it returns the
\* text, or the Error goes to its catch block.
Formatted(r) ==
    IF ~r.ok
    THEN Throw("format", r.message)
    ELSE /\ results' = [results EXCEPT ![call] = FormatReturn(r.text)]
         /\ pc' = "returned"
         /\ UNCHANGED raised

\* new ZapFormatter().format(zapConfigurationNode)
Format ==
    /\ pc = "format"
    /\ Formatted(ZapFormatter_format(asts[call][1]))
    /\ UNCHANGED <<source, variant, call, input, position, line, column, tokens,
                   starts, iterations, lexed, asts>>

\* The caller makes the next call: format(source) after validate(source),
\* and format(output) after a format(source) that returned.
NextCall ==
    /\ pc = "returned"
    /\ \/ call = "validate" /\ call' = "format" /\ input' = source
       \/ /\ call = "format"
          /\ results[call].kind = "return"
          /\ call' = "reformat"
          /\ input' = results[call].text
    /\ pc' = "tokenize"
    /\ position' = 0
    /\ line' = 1
    /\ column' = 1
    /\ tokens' = <<>>
    /\ starts' = <<>>
    /\ iterations' = 0
    /\ UNCHANGED <<source, variant, lexed, asts, raised, results>>

Next == NextToken \/ TokenizeReturn \/ Parse \/ Format \/ NextCall

\* The state in which validate(text) has just been called.
Start(texts) ==
    /\ source \in texts
    /\ variant \in {"chars", "bytes"}
    /\ call = "validate"
    /\ pc = "tokenize"
    /\ input = source
    /\ position = 0
    /\ line = 1
    /\ column = 1
    /\ tokens = <<>>
    /\ starts = <<>>
    /\ iterations = 0
    /\ lexed = [c \in Calls |-> <<>>]
    /\ asts = [c \in Calls |-> <<>>]
    /\ raised = [c \in Calls |-> <<>>]
    /\ results = [c \in Calls |-> NoResult]

(***************************************************************************)
(* Source texts the runs are made on.                                      *)
(***************************************************************************)

\* Nesting depth of the generated type expressions.
MaxDepth == 2

\* Declarations in a generated document.
MaxDecls == 3

BaseTypes == {"u8", "Instance(Part)", "Vector2"}

\* Type expressions with the type expression t inside.
Wrappers(t) ==
    {t \o "[2..]", t \o "?", "(" \o t \o ")[]", t \o " | i8",
     "struct {a: " \o t \o "}", "enum \"k\" {A {x: " \o t \o "}, B}"}

RECURSIVE TypeTexts(_)
TypeTexts(depth) ==
    IF depth = 0 THEN BaseTypes
    ELSE BaseTypes \cup UNION {Wrappers(t) : t \in TypeTexts(depth - 1)}

ExtraTypes ==
    {"(string)", "()", "(a: u8)", "(u8, u16,)", "map {[string]: u8}", "set {u8}",
     "vector(f32, f32)", "vector", "Vector3", "enum {A, B}", "enum {\nA,\nB,\n}",
     "enum \"\" {A}", "Instance", "Instance.Part", "string.utf8", "u8[]", "u8[][]",
     "string[1..5]", "(u8?)?", "boolean", "unknown", "struct {}", "struct {a: u8, b: u16,}",
     "enum \"k\" {A, B}", "enum \"k\" {A {x: u8}, B {y: u8}, C}", "enum \"k\" {}", "enum {}"}

NumberLiterals == {"5", "10", "1.50", "0.0000001"}

\* The contents of a range constraint.
RangeTexts ==
    NumberLiterals
    \cup {a \o ".." \o b : a \in NumberLiterals, b \in NumberLiterals}
    \cup {a \o ".." : a \in NumberLiterals}
    \cup {".." \o b : b \in NumberLiterals}
    \cup {"..", ""}

RangedTypes ==
    {"u8(" \o r \o ")" : r \in RangeTexts} \cup {"u8[" \o r \o "]" : r \in RangeTexts}

TypeDefinitionSources ==
    {"type T = " \o t : t \in TypeTexts(MaxDepth) \cup ExtraTypes \cup RangedTypes}

\* The declaration of a kind at place i of a document.
Declaration(kind, i) ==
    CASE kind = "opt" -> "opt k" \o ToString(i) \o " = " \o ToString(i)
      [] kind = "comment" -> "-- c" \o ToString(i)
      [] kind = "event" -> "event E" \o ToString(i) \o " = {}"
      [] kind = "type" -> "type T" \o ToString(i) \o " = u8"

DeclarationKinds == {"opt", "comment", "event", "type"}

RECURSIVE Documents(_)
\* The documents of exactly n declarations, one per line.
Documents(n) ==
    IF n = 1 THEN {Declaration(kind, 1) : kind \in DeclarationKinds}
    ELSE {d \o "\n" \o Declaration(kind, n) : d \in Documents(n - 1), kind \in DeclarationKinds}

DocumentSources ==
    UNION {Documents(n) : n \in 1..MaxDecls}
    \cup {"opt casing = \"PascalCase\"\nevent Ping = { from: Client, type: Reliable, data: (n: f32) }",
          "namespace N = {\n-- c\n-- d\nevent E = {\ncall: SingleAsync,\n}\nfunct F = { rets: u8, args: (a: u8), call: Async }\n}",
          "opt a = true\nopt b = \"hello world\"\nopt c = PascalCase\n\n\ntype  T =\tu8 -- tail\r\n",
          "funct F =\n{\n}", "",
          "-- a\n-- b\ntype T = u8\nopt k = 1\nevent E = {}\n\n\n\n-- z\n\n"}

MalformedSources ==
    {"event = {}", "\"abc", "x" \o NUL, NUL, "type T = u8 " \o NUL \o " ", "type T = u8 #",
     "type T = ", "opt a = ", "event E = { args: u8 }", "namespace N = { type T = u8 }",
     "type T = u8(1", "u8", "type T = enum { A { x: u8 } }", "opt a = \"x\\"}

\* The type expressions written between parentheses.
TupleInner == TypeTexts(MaxDepth - 1) \cup {"()", "(u8)", "(a: u8)", "(u8, u16)", "string"}

\* One unnamed element with and without a trailing comma, one named
\* element, and two elements.
TupleSources ==
    UNION {{"type T = (" \o t \o ")", "type T = (" \o t \o ",)",
            "type T = (a: " \o t \o ")", "type T = (" \o t \o ", " \o t \o ")"} :
           t \in TupleInner}

\* What precedes a declaration in a source, with the number of its tokens.
Preambles ==
    {[text |-> "", tokens |-> 0],
     [text |-> "type T = u8\n", tokens |-> 5],
     [text |-> "-- c\n\nopt a = 1\n", tokens |-> 8]}

\* The declaration keywords, with the description of the name each expects.
DeclarationKeywords ==
    {[text |-> "event", type |-> "EVENT", expected |-> "Expected event name"],
     [text |-> "funct", type |-> "FUNCT", expected |-> "Expected function name"],
     [text |-> "namespace", type |-> "NAMESPACE", expected |-> "Expected namespace name"],
     [text |-> "type", type |-> "TYPE", expected |-> "Expected type name"],
     [text |-> "opt", type |-> "OPT", expected |-> "Expected option key"]}

\* What follows a keyword in place of a name.
Nameless == {" = {}", "", "\n= {}", " \"E\" = {}", " data = {}", " 5", " type T = u8"}

\* Declarations without a name.
NamelessSources ==
    {preamble.text \o keyword.text \o rest :
        preamble \in Preambles, keyword \in DeclarationKeywords, rest \in Nameless}

\* The properties of an event and of a function in the order formatEvent
\* and formatFunction emit them, each with a value to write in a source.
EventPropertyTexts ==
    <<[key |-> "from", value |-> "Client"], [key |-> "type", value |-> "Reliable"],
      [key |-> "call", value |-> "SingleAsync"], [key |-> "data", value |-> "u8"]>>

FunctionPropertyTexts ==
    <<[key |-> "call", value |-> "Async"], [key |-> "args", value |-> "(a: u8)"],
      [key |-> "rets", value |-> "u8"]>>

\* The ways to write some of count properties, each at most once.
Orders(count) ==
    {order \in UNION {[1..k -> 1..count] : k \in 0..count} :
        \A i, j \in 1..Len(order) : i # j => order[i] # order[j]}

\* The block of the keyword with the properties written in that order.
BlockSource(keyword, properties, order) ==
    keyword \o " B = { "
        \o Join([i \in 1..Len(order) |->
                    properties[order[i]].key \o ": " \o properties[order[i]].value], ", ")
        \o " }"

BlockSources ==
    {BlockSource("event", EventPropertyTexts, order) : order \in Orders(Len(EventPropertyTexts))}
    \cup {BlockSource("funct", FunctionPropertyTexts, order) :
            order \in Orders(Len(FunctionPropertyTexts))}

\* Number, boolean and string literals written as the value of an option.
OptionValueTexts ==
    {"1.5", "0", "10", "007", "0.0000001", "true", "false", "\"hello world\"", "\"\"",
     "\"PascalCase\"", "\"x\\\"y\"", "\"a\\\\b\"", "\"a\\tb\"", "\"a(b\""}

OptionSources ==
    {"opt x = " \o v : v \in OptionValueTexts}
    \cup {"opt x = " \o v \o "\nopt y = " \o w : v, w \in {"1.5", "true", "\"hello world\""}}

\* Members in a generated namespace body.
MaxMembers == 2

\* What a namespace body takes as a member, and what it does not.
MemberKinds == {"comment", "event", "function"}

NonMemberKinds == {"namespace", "typeDefinition", "option", "other"}

\* The text of a declaration of the kind at place i of a namespace body.
MemberText(kind, i) ==
    CASE kind = "comment" -> "-- c" \o ToString(i)
      [] kind = "event" -> "event M" \o ToString(i) \o " = {}"
      [] kind = "function" -> "funct M" \o ToString(i) \o " = {}"
      [] kind = "namespace" -> "namespace M" \o ToString(i) \o " = {}"
      [] kind = "typeDefinition" -> "type M" \o ToString(i) \o " = u8"
      [] kind = "option" -> "opt M" \o ToString(i) \o " = 1"
      [] kind = "other" -> "u8"

\* The token that the text of a kind begins with.
MemberToken(kind) ==
    CASE kind = "comment" -> "COMMENT"
      [] kind = "event" -> "EVENT"
      [] kind = "function" -> "FUNCT"
      [] kind = "namespace" -> "NAMESPACE"
      [] kind = "typeDefinition" -> "TYPE"
      [] kind = "option" -> "OPT"
      [] kind = "other" -> "U8"

Bodies ==
    UNION {[1..k -> MemberKinds \cup NonMemberKinds] : k \in 0..MaxMembers}

\* The namespace whose body has a declaration of each of the kinds, one
\* per line.
NamespaceSource(kinds) ==
    LET Body[i \in 0..Len(kinds)] ==
            IF i = 0 THEN "" ELSE Body[i - 1] \o MemberText(kinds[i], i) \o "\n"
    IN  "namespace N = {\n" \o Body[Len(kinds)] \o "}"

NamespaceSources == {NamespaceSource(kinds) : kinds \in Bodies}

DigitStrings == {"0", "5", "12", "007", "1234567890"}

\* Two digit strings around two dots, and numbers with a decimal point
\* before a dot or two.
NumberSources ==
    {d1 \o ".." \o d2 : d1, d2 \in DigitStrings}
    \cup {"1.5..2", "1.5.2", "1.", "1..", "1...5", "u8(12.5..007)", "1 .. 2"}

\* Suffixes after a base type in a generated type expression.
MaxSuffixes == 3

SuffixTexts == {"[]", "[2..]", "?"}

SuffixChains == UNION {[1..k -> SuffixTexts] : k \in 0..MaxSuffixes}

\* Base types that are not primitives, with the subtype of their node.
SuffixBases ==
    {[text |-> "Instance.Part", subtype |-> "instance"],
     [text |-> "struct {}", subtype |-> "struct"],
     [text |-> "u8", subtype |-> "primitive"]}

\* The suffixes of the chain one after the other.
ChainText(chain) ==
    LET Text[i \in 0..Len(chain)] == IF i = 0 THEN "" ELSE Text[i - 1] \o chain[i]
    IN  Text[Len(chain)]

\* The chains an alternative of a generated union has.
AlternativeChains == {<<>>, <<"[]">>, <<"?">>, <<"[2..]", "?">>}

SuffixSources ==
    {"type T = " \o base.text \o ChainText(chain) : base \in SuffixBases, chain \in SuffixChains}
    \cup {"type T = Instance.Part" \o ChainText(first) \o " | struct {}" \o ChainText(second) :
            first \in AlternativeChains, second \in AlternativeChains}

\* Class names written in an instance type.
ClassNames == {"Part", "Model", "Instance", "RemoteEvent", "A1_b", "data"}

InstanceSources ==
    {"type T = Instance(" \o C \o ")" : C \in ClassNames}
    \cup {"type T = Instance." \o C : C \in ClassNames}
    \cup {"type T = Instance", "type T = Instance?", "type T = Instance(Part)[]"}

\* Variants in a generated enum.
MaxVariants == 2

\* What is written between enum and its brace, with whether it is a tag
\* that parseEnumType takes as given.
EnumTags ==
    {[text |-> "", given |-> FALSE], [text |-> "\"k\" ", given |-> TRUE],
     [text |-> "\"\" ", given |-> FALSE]}

\* What is written after the name of a variant.
Payloads == {"", " {x: u8}", " {}"}

EnumBodies == UNION {[1..k -> Payloads] : k \in 0..MaxVariants}

\* The enum with a variant for each payload of the body.
EnumSource(tag, body) ==
    "type T = enum " \o tag.text \o "{"
        \o Join([i \in 1..Len(body) |-> "V" \o ToString(i) \o body[i]], ", ") \o "}"

EnumSources == {EnumSource(tag, body) : tag \in EnumTags, body \in EnumBodies}

\* Components in a generated vector type.
MaxComponents == 2

\* The keywords of the lexer's table that parseBaseType takes as a vector.
VectorKeywords == {"vector", "Vector2", "Vector3"}

\* A component as it is written and as it is rendered.
ComponentTexts ==
    {[text |-> "u8", rendering |-> "u8"], [text |-> "f32", rendering |-> "f32"],
     [text |-> "Vector2", rendering |-> "Vector3"]}

ComponentLists == UNION {[1..k -> ComponentTexts] : k \in 0..MaxComponents}

\* What is written after the last component.
ListEndings == {"", ",", ", "}

\* The vector type of the keyword with the parenthesized list.
VectorSource(keyword, list, ending) ==
    "type T = " \o keyword \o "("
        \o Join([i \in 1..Len(list) |-> list[i].text], ", ")
        \o (IF Len(list) = 0 THEN "" ELSE ending) \o ")"

VectorSources ==
    {"type T = " \o keyword : keyword \in VectorKeywords}
    \cup {VectorSource(keyword, list, ending) :
            keyword \in VectorKeywords, list \in ComponentLists, ending \in ListEndings}

\* Types in parentheses before a suffix.
GroupedTypes == {"u8 | i8", "u8?", "u8 | i8?", "u8[]", "Instance.Part | u8[]"}

GroupedSources ==
    {"type T = (" \o grouped \o ")" \o suffix : grouped \in GroupedTypes, suffix \in {"?", "[]"}}

Sources ==
    TypeDefinitionSources \cup DocumentSources \cup MalformedSources \cup TupleSources
        \cup NamelessSources \cup BlockSources \cup OptionSources \cup NamespaceSources
        \cup NumberSources \cup SuffixSources \cup InstanceSources \cup EnumSources
        \cup VectorSources \cup GroupedSources

Init == Start(Sources)

Spec == Init /\ [][Next]_vars

\* How far on either side of WIDTH_THRESHOLD the inline renderings of the
\* width runs reach.
Slack == 2

WidthLengths == (WIDTH_THRESHOLD - Slack)..(WIDTH_THRESHOLD + Slack)

WideKinds == {"struct", "tuple", "enum"}

\* Elements of the wide types besides the first.
MaxElements == 6

\* What opens and closes a type of the kind and follows an element's name.
WideOpen(kind) ==
    CASE kind = "struct" -> "struct {" [] kind = "tuple" -> "(" [] kind = "enum" -> "enum {"

WideClose(kind) == IF kind = "tuple" THEN ")" ELSE "}"

WideSuffix(kind) == IF kind = "enum" THEN "" ELSE ": u8"

\* The fields, elements or variants of the wide type of that inline length:
\* the first has the name that makes up the length.
WideElements(kind, length) ==
    LET others == [i \in 1..MaxElements |-> "member" \o ToString(i) \o WideSuffix(kind)]
        fixed == Len(WideOpen(kind)) + Len(WideSuffix(kind)) + Len(WideClose(kind))
                    + MaxElements * Len(", " \o others[1])
    IN  <<Repeat("x", length - fixed) \o WideSuffix(kind)>> \o others

\* A struct, a tuple and an untagged enum without fields, written on one
\* line of the given length.
WideInline(kind, length) ==
    WideOpen(kind) \o Join(WideElements(kind, length), ", ") \o WideClose(kind)

WidthSources ==
    {"type T = " \o WideInline(kind, length) : kind \in WideKinds, length \in WidthLengths}
    \cup {"event E = { data: " \o WideInline(kind, length) \o " }" :
            kind \in WideKinds, length \in WidthLengths}

InitWidth == Start(WidthSources)

SpecWidth == InitWidth /\ [][Next]_vars

\* What is written around a wide tuple W for the runs on the indent depth.
IndentSource(wrapping, W) ==
    CASE wrapping = "type" -> "type T = " \o W
      [] wrapping = "event" -> "event E = { data: " \o W \o " }\nevent G = { data: u8 }"
      [] wrapping = "function" -> "funct F = { args: " \o W \o ", rets: " \o W \o " }"
      [] wrapping = "nested" -> "type T = (first: " \o W \o ", second: (u8, " \o W \o "))"
      [] wrapping = "namespace" ->
            "namespace N = {\n-- c\nevent E = { data: " \o W \o " }\nfunct F = { rets: "
                \o W \o " }\n}\ntype T = " \o W

Wrappings == {"type", "event", "function", "nested", "namespace"}

IndentSources ==
    {IndentSource(wrapping, WideInline("tuple", length)) :
        wrapping \in Wrappings, length \in WidthLengths}

InitIndent == Start(IndentSources)

SpecIndent == InitIndent /\ [][Next]_vars

\* Every way to cut the text short, the whole text included.
Prefixes(text) == {SubSeq(text, 1, n) : n \in 0..Len(text)}

\* Texts with every loop of the parser in them.
WholeDocuments ==
    {"opt a = 1\n-- c\ntype T = struct { a: u8[2..3][]?, b: (x: u8, i8) | enum \"k\" { A { x: u8 }, B }, }\n",
     "namespace N = {\n-- c\nevent E = { from: Server, data: vector(u8, u8,) },\nfunct F = { call: Async, args: (u8 | i8[], ), rets: enum { A, B } }\n}\n"}

TruncatedSources == UNION {Prefixes(text) : text \in WholeDocuments}

InitTruncated == Start(TruncatedSources)

SpecTruncated == InitTruncated /\ [][Next]_vars

\* The text of the file net.zap, line by line.
NetZap ==
    "opt server_output = \"src/server/ZapServer.luau\"\n" \o
    "opt client_output = \"src/client/ZapClient.luau\"\n" \o
    "opt types_output = \"src/shared/Types/ZapTypes.luau\"\n" \o
    "opt call_default = \"SingleAsync\"\n" \o
    "opt casing = \"PascalCase\"\n" \o
    "opt write_checks = true\n" \o
    "opt typescript = false\n" \o
    "opt manual_event_loop = false\n" \o
    "opt typescript_max_tuple_length = 15\n" \o
    "opt typescript_enum = \"ConstEnum\"\n" \o
    "opt yield_type = \"promise\"\n" \o
    "opt async_lib = \"require(game:GetService('ReplicatedStorage'):WaitForChild('Packages'):WaitForChild('Promise'))\"\n" \o
    "opt tooling = true\n" \o
    "opt disable_fire_all = true\n" \o
    "type GamePasses = enum {Vip}\n" \o
    "\n" \o
    "event OnIdled = {\n" \o
    "from: Client, type: Reliable, call: SingleAsync,\n" \o
    "data: ( \n" \o
    "time: f32,),\n" \o
    "}\n" \o
    "\n" \o
    "event PromptNotification =\n" \o
    "{\n" \o
    "\tfrom: Server, type: Reliable,\n" \o
    "\tdata: ( type: string.utf8,\n" \o
    "\tmessage: string.utf8?,\n" \o
    "\t),\n" \o
    "}\n" \o
    "\n" \o
    "\n" \o
    "namespace BuddyMan = {\n" \o
    "type Cool = enum {\n" \o
    "\tHello,\n" \o
    "\tWorld,\n" \o
    "}\n" \o
    " event CoolEvent = {\n" \o
    "\tfrom: Server, type: Reliable, call: SingleAsync,\n" \o
    "\tdata: (coolType: Cool),\n" \o
    " }\n" \o
    "}"

\* The namespace of net.zap by itself, and with its members in the other
\* order and one at a time.
NetZapNamespace ==
    "namespace BuddyMan = {\ntype Cool = enum {\n\tHello,\n\tWorld,\n}\n event CoolEvent = {\n\tfrom: Server, type: Reliable, call: SingleAsync,\n\tdata: (coolType: Cool),\n }\n}"

\* net.zap up to its namespace.
NetZapHead == SubSeq(NetZap, 1, Len(NetZap) - Len(NetZapNamespace))

NetZapSources ==
    {NetZap, NetZapNamespace, NetZapHead,
     "namespace BuddyMan = {\n event CoolEvent = {\n\tfrom: Server, type: Reliable, call: SingleAsync,\n\tdata: (coolType: Cool),\n }\n}",
     "type Cool = enum {\n\tHello,\n\tWorld,\n}\n event CoolEvent = {\n\tfrom: Server, type: Reliable, call: SingleAsync,\n\tdata: (coolType: Cool),\n }\n"}

InitNetZap == Start(NetZapSources)

SpecNetZap == InitNetZap /\ [][Next]_vars

\* Pieces between the quotes of a generated string literal.
MaxPieces == 2

\* What is written between the quotes, with the text it stands for: a
\* plain character, the five escapes, another escaped character, a line
\* break.
StringPieces ==
    {[text |-> "a", value |-> "a"], [text |-> "\\\"", value |-> "\""],
     [text |-> "\\\\", value |-> "\\"], [text |-> "\\n", value |-> "\n"],
     [text |-> "\\r", value |-> "\r"], [text |-> "\\t", value |-> "\t"],
     [text |-> "\\q", value |-> "q"], [text |-> "\n", value |-> "\n"]}

StringBodies == UNION {[1..k -> StringPieces] : k \in 0..MaxPieces}

\* What precedes the literal, with the number of its tokens.
StringPreambles ==
    {[text |-> "", tokens |-> 0], [text |-> "opt a =\n  ", tokens |-> 4],
     [text |-> "opt a = ", tokens |-> 3]}

\* What ends the literal: the closing quote, the end of input, a backslash
\* and the end of input.
StringEndings == {"\"", "", "\\"}

\* The texts of the pieces, and what they stand for, one after the other.
BodyText(body) ==
    LET Text[i \in 0..Len(body)] == IF i = 0 THEN "" ELSE Text[i - 1] \o body[i].text
    IN  Text[Len(body)]

BodyValue(body) ==
    LET Value[i \in 0..Len(body)] == IF i = 0 THEN "" ELSE Value[i - 1] \o body[i].value
    IN  Value[Len(body)]

StringSource(preamble, body, ending) ==
    preamble.text \o "\"" \o BodyText(body) \o ending

StringSources ==
    {StringSource(preamble, body, ending) :
        preamble \in StringPreambles, body \in StringBodies, ending \in StringEndings}

InitStrings == Start(StringSources)

SpecStrings == InitStrings /\ [][Next]_vars

(***************************************************************************)
(* Properties.                                                             *)
(***************************************************************************)

\* C1: round-trip idempotence.  When format(x) returned y, format(y)
\* returns too (y lexes and parses), and what it returns is y.
RoundTripIdempotent ==
    (call = "reformat" /\ pc = "returned")
        => /\ results.reformat.kind = "return"
           /\ results.reformat.text = results.format.text

\* C2: validate never throws.  It returns {isValid: true} when no Error was
\* raised while lexing and parsing, and otherwise {isValid: false, error}
\* with the message of the one Error that was raised, the first.
ValidateNeverThrows ==
    /\ results.validate.kind \in {"none", "return"}
    /\ results.validate.kind = "return"
        => IF raised.validate = <<>>
           THEN /\ results.validate.isValid
                /\ lexed.validate # <<>>
                /\ asts.validate # <<>>
           ELSE /\ ~results.validate.isValid
                /\ Len(raised.validate) = 1
                /\ raised.validate[1].stage \in {"lex", "parse"}
                /\ results.validate.text = raised.validate[1].message

ValidateReportsLexError ==
    /\ results.validate.kind = "return"
    /\ ~results.validate.isValid
    /\ raised.validate # <<>>
    /\ raised.validate[1].stage = "lex"
    /\ results.validate.text = raised.validate[1].message

\* C3: format returns the whole formatted string or throws an Error whose
\* message is "Zap formatting error: " and then the message of the Error
\* raised underneath; after a lex or parse failure it returns nothing.
FormatWrapsError ==
    \A entry \in {"format", "reformat"} :
        /\ results[entry].kind = "throw"
            => /\ Len(raised[entry]) = 1
               /\ results[entry].text
                    = "Zap formatting error: " \o raised[entry][1].message
        /\ results[entry].kind = "return"
            => /\ raised[entry] = <<>>
               /\ asts[entry] # <<>>
               /\ results[entry].text = ZapFormatter_format(asts[entry][1]).text
        /\ raised[entry] # <<>> => results[entry].kind = "throw"

FormatThrowsOnParseError ==
    /\ results.format.kind = "throw"
    /\ raised.format # <<>>
    /\ raised.format[1].stage = "parse"
    /\ raised.format[1].message = "Expected event name. Got 'EQUALS' at line 1"

\* C4: tokenize terminates.  Every iteration of the scanning loop moves
\* the position forward by at least one character or raises an Error.
ScanningLoopAdvances ==
    [][iterations' = iterations + 1 => (position' > position \/ raised' # raised)]_vars

\* The line of the lexer after the first count characters of text.
LineAfter(text, count) ==
    1 + Cardinality({i \in 1..count : SubSeq(text, i, i) = "\n"})

\* The column of the lexer after the first count characters of text.
ColumnAfter(text, count) ==
    LET newlines == {i \in 1..count : SubSeq(text, i, i) = "\n"}
        last == IF newlines = {} THEN 0 ELSE CHOOSE i \in newlines : \A j \in newlines : j <= i
    IN  count - last + 1

\* C5: what tokenize returns has exactly one EOF token, the last, with an
\* empty value and the line and column of the end of the input; every
\* other token has the line and column of its first character.
EofLastAndPositions ==
    pc = "parse"
        => LET count == Len(tokens)
           IN  /\ count >= 1
               /\ lexed[call] = <<tokens>>
               /\ tokens[count].type = "EOF"
               /\ tokens[count].value = ""
               /\ tokens[count].line = LineAfter(input, Len(input))
               /\ tokens[count].column = ColumnAfter(input, Len(input))
               /\ Len(starts) = count - 1
               /\ \A i \in 1..(count - 1) :
                    /\ tokens[i].type # "EOF"
                    /\ CharAt(input, starts[i]) = SubSeq(tokens[i].value, 1, 1)
                    /\ tokens[i].line = LineAfter(input, starts[i])
                    /\ tokens[i].column = ColumnAfter(input, starts[i])

TokensOnLaterLines ==
    /\ pc = "parse"
    /\ Len(tokens) > 3
    /\ tokens[Len(tokens)].line > 1
    /\ tokens[Len(tokens)].column > 1
    /\ tokens[Len(tokens) - 1].line > 1
    /\ tokens[Len(tokens) - 1].column > 1

RECURSIVE CommentText(_)
\* The text of a comment after its marker and the blanks that follow it.
CommentText(value) ==
    IF value # "" /\ Head(value) \in {"-", " ", "\t"} THEN CommentText(Tail(value))
    ELSE value

RECURSIVE Declarations(_, _, _)
\* The top-level declarations that the tokens ts spell from place i on, in
\* order: the keyword with the name declared, or a comment with its text.
Declarations(ts, i, depth) ==
    IF i > Len(ts) THEN <<>>
    ELSE LET type == ts[i].type
             here == IF depth = 0 /\ type \in {"OPT", "EVENT", "FUNCT", "NAMESPACE", "TYPE"}
                     THEN <<(<<type, ts[i + 1].value>>)>>
                     ELSE IF depth = 0 /\ type = "COMMENT"
                          THEN <<(<<type, CommentText(ts[i].value)>>)>>
                          ELSE <<>>
             deeper == IF type \in {"LEFT_BRACE", "LEFT_PAREN", "LEFT_BRACKET"} THEN depth + 1
                       ELSE IF type \in {"RIGHT_BRACE", "RIGHT_PAREN", "RIGHT_BRACKET"}
                            THEN depth - 1
                            ELSE depth
         IN  here \o Declarations(ts, i + 1, deeper)

\* The declarations of the source and of the output of format.
DeclaredIn(entry) == Declarations(lexed[entry][1], 1, 0)

IsOption(declaration) == declaration[1] = "OPT"

IsItem(declaration) == declaration[1] # "OPT"

\* C6: order preservation.  The output has every option before every
\* item, the options in their source order and the top-level items in
\* their source order, however they are interleaved in the source.
OptionsThenItemsInSourceOrder ==
    (results.format.kind = "return" /\ lexed.reformat # <<>>)
        => DeclaredIn("reformat")
             = SelectSeq(DeclaredIn("format"), IsOption) \o SelectSeq(DeclaredIn("format"), IsItem)

InterleavedOptionsMoved ==
    /\ results.format.kind = "return"
    /\ lexed.reformat # <<>>
    /\ Len(DeclaredIn("format")) = 3
    /\ IsOption(DeclaredIn("format")[1])
    /\ IsItem(DeclaredIn("format")[2])
    /\ IsOption(DeclaredIn("format")[3])
    /\ DeclaredIn("reformat") # DeclaredIn("format")

\* C7: the formatter is total on what parse returns.  format(x) returns a
\* string exactly when validate(x) returns isValid: true, and no Error is
\* ever raised by the formatter itself.
FormatterTotalOnParserOutput ==
    /\ results.format.kind # "none"
        => (results.format.kind = "return" <=> results.validate.isValid)
    /\ \A entry \in Calls : \A i \in 1..Len(raised[entry]) : raised[entry][i].stage # "format"
    /\ \A entry \in {"format", "reformat"} :
        asts[entry] # <<>> => FirstUnknown(asts[entry][1].items) = ""

NamespaceFormatted ==
    /\ results.validate.isValid
    /\ results.format.kind = "return"
    /\ asts.format[1].items # <<>>
    /\ asts.format[1].items[1].type = "namespace"
    /\ Len(asts.format[1].items[1].members) = 4

RECURSIVE OnePerLine(_, _)
\* Each element on a line of its own behind the indentation, a comma after
\* all but the last.
OnePerLine(elements, indentation) ==
    IF Len(elements) = 1 THEN indentation \o elements[1] \o "\n"
    ELSE indentation \o elements[1] \o ",\n" \o OnePerLine(Tail(elements), indentation)

\* One field, element or variant per line; a tuple indents its elements one
\* level deeper than the line it is on, a struct and an enum by one tab.
WideMultiline(kind, length, indentLevel) ==
    IF kind = "tuple"
    THEN "(\n" \o OnePerLine(WideElements(kind, length), Repeat("\t", indentLevel + 1))
            \o Repeat("\t", indentLevel) \o ")"
    ELSE WideOpen(kind) \o "\n" \o OnePerLine(WideElements(kind, length), "\t") \o "}"

\* The rendering expected for the type of that kind and inline length.
WideRendering(kind, length, indentLevel) ==
    IF length <= 120 THEN WideInline(kind, length)
    ELSE WideMultiline(kind, length, indentLevel)

\* C8: width threshold.  A struct, tuple or untagged enum without fields
\* whose own one-line rendering has 120 characters is emitted on one line,
\* and one of 121 characters one field, element or variant per line,
\* whatever precedes it on its line.
WidthThresholdBoundary ==
    results.format.kind = "return"
        => \A kind \in WideKinds, length \in WidthLengths :
            /\ source = "type T = " \o WideInline(kind, length)
                => results.format.text = "type T = " \o WideRendering(kind, length, 0)
            /\ source = "event E = { data: " \o WideInline(kind, length) \o " }"
                => results.format.text
                     = "event E = {\n\tdata: " \o WideRendering(kind, length, 1) \o ",\n}"

InlineAtThreshold ==
    /\ results.format.kind = "return"
    /\ \E kind \in WideKinds :
        /\ Len(WideInline(kind, 120)) = 120
        /\ source = "event E = { data: " \o WideInline(kind, 120) \o " }"
        /\ results.format.text = "event E = {\n\tdata: " \o WideInline(kind, 120) \o ",\n}"

\* The five renderings of a range constraint.
RangeRendering(constraint) ==
    IF constraint.min # <<>> /\ constraint.max # <<>>
    THEN IF constraint.min = constraint.max THEN NumberToString(constraint.min[1])
         ELSE NumberToString(constraint.min[1]) \o ".." \o NumberToString(constraint.max[1])
    ELSE IF constraint.min # <<>> THEN NumberToString(constraint.min[1]) \o ".."
    ELSE IF constraint.max # <<>> THEN ".." \o NumberToString(constraint.max[1])
    ELSE ".."

\* The type that the one type definition of a parsed source defines.
DefinedType(entry) == asts[entry][1].items[1].definition

IsTypeDefinition(entry) ==
    /\ asts[entry] # <<>>
    /\ Len(asts[entry][1].items) = 1
    /\ asts[entry][1].items[1].type = "typeDefinition"

\* C9: range constraint symmetry on primitives.  A primitive with a
\* constraint renders as name(a), name(a..b), name(a..), name(..b) or
\* name(..), and parsing the rendering gives the same constraint again.
RangeConstraintSymmetry ==
    (/\ call = "reformat"
     /\ pc = "returned"
     /\ IsTypeDefinition("format")
     /\ DefinedType("format").subtype = "primitive"
     /\ DefinedType("format").constraint # <<>>)
        => /\ results.format.text
                = "type T = " \o DefinedType("format").name
                    \o "(" \o RangeRendering(DefinedType("format").constraint[1]) \o ")"
           /\ IsTypeDefinition("reformat")
           /\ DefinedType("reformat").subtype = "primitive"
           /\ DefinedType("reformat").constraint = DefinedType("format").constraint

\* C10: an array with a range constraint renders as the element type, [],
\* and the constraint in parentheses as on a primitive; an array without
\* one renders as the element type and [].
ArrayConstraintParenthesized ==
    (/\ results.format.kind = "return"
     /\ IsTypeDefinition("format")
     /\ DefinedType("format").subtype = "array"
     /\ DefinedType("format").elementType.subtype = "primitive")
        => results.format.text
             = "type T = " \o DefinedType("format").elementType.name \o "[]"
                 \o (IF DefinedType("format").constraint # <<>>
                     THEN "(" \o RangeRendering(DefinedType("format").constraint[1]) \o ")"
                     ELSE "")

RECURSIVE TypesWithin(_)
\* Every type node of the nodes, those nested in them included.
TypesWithin(nodes) ==
    IF Len(nodes) = 0 THEN <<>>
    ELSE LET node == nodes[1]
         IN  (IF node.type = "type"
              THEN <<node>> \o TypesWithin(TypeChildren(node))
              ELSE TypesWithin(ItemChildren(node)))
             \o TypesWithin(Tail(nodes))

\* The tokens of `type T = (t)` and `type T = (t,)` without the opening
\* parenthesis and without the closing tokens: those of `type T = t`.
WithoutParentheses(ts, closing) ==
    SubSeq(ts, 1, 3) \o SubSeq(ts, 5, Len(ts) - 1 - closing) \o <<ts[Len(ts)]>>

\* The outcome r of a parse is what validate(source) was left with.
SameOutcome(r) ==
    IF r.ok THEN asts.validate = <<r.v>> ELSE asts.validate = <<>>

\* C11: tuple collapse.  `(t)` and `(t,)` parse to the AST of bare t, and
\* a Tuple node of any AST has no element, two or more, or one named.
TupleCollapse ==
    /\ (call = "validate" /\ pc = "returned")
        => \A t \in TupleInner :
            /\ source = "type T = (" \o t \o ")"
                => SameOutcome(ZapParser_parse(WithoutParentheses(lexed.validate[1], 1)))
            /\ source = "type T = (" \o t \o ",)"
                => SameOutcome(ZapParser_parse(WithoutParentheses(lexed.validate[1], 2)))
    /\ \A entry \in Calls :
        (pc = "returned" /\ asts[entry] # <<>>)
            => LET nodes == TypesWithin(asts[entry][1].items)
               IN  \A i \in 1..Len(nodes) :
                    nodes[i].subtype = "tuple"
                        => \/ Len(nodes[i].elements) # 1
                           \/ nodes[i].elements[1].name # <<>>

TrailingCommaCollapsed ==
    /\ source = "type T = (u8 | i8,)"
    /\ results.validate.isValid
    /\ DefinedType("validate").subtype = "union"
    /\ Len(lexed.validate[1]) = 10

RECURSIVE TaggedVariantLines(_)
\* The lines of a tagged enum's variants: the name, the struct rendering
\* of its fields if it has any, a comma unless it is the last, and a blank
\* line after a variant with fields that is not the last.
TaggedVariantLines(variants) ==
    IF Len(variants) = 0 THEN ""
    ELSE LET first == variants[1]
             last == Len(variants) = 1
         IN  "\t" \o first.name
                \o (IF first.fields # <<>>
                    THEN " " \o ZapFormatter_formatStructType(first.fields[1], 0)
                    ELSE "")
                \o (IF last THEN "" ELSE ",") \o "\n"
                \o (IF first.fields # <<>> /\ ~last THEN "\n" ELSE "")
                \o TaggedVariantLines(Tail(variants))

\* The names of the variants, in order.
VariantNames(variants) == [i \in 1..Len(variants) |-> variants[i].name]

\* C12: enum formatting.  An untagged enum without fields whose inline
\* form fits renders as enum {A, B}; an enum with a tag renders as
\* enum "tag" {, one variant per line, and }.
EnumRendering ==
    (/\ results.format.kind = "return"
     /\ IsTypeDefinition("format")
     /\ DefinedType("format").subtype = "enum")
        => LET enumTypeNode == DefinedType("format")
           IN  results.format.text
                 = "type T = "
                    \o (IF enumTypeNode.tagField # <<>>
                        THEN "enum \"" \o enumTypeNode.tagField[1] \o "\" {\n"
                                \o TaggedVariantLines(enumTypeNode.variants) \o "}"
                        ELSE "enum {" \o Join(VariantNames(enumTypeNode.variants), ", ") \o "}")

\* What the runs on preamble, keyword, rest have when the keyword's name
\* is missing: the parse Error names the token after the keyword and its
\* line, there is no AST, and format throws.
NamelessRejected(preamble, keyword) ==
    LET declared == lexed.validate[1][preamble.tokens + 1]
        met == lexed.validate[1][preamble.tokens + 2]
        message == keyword.expected \o ". Got '" \o met.type \o "' at line "
                        \o ToString(met.line)
    IN  /\ declared.type = keyword.type
        /\ met.type # "IDENTIFIER"
        /\ raised.validate = <<[stage |-> "parse", message |-> message]>>
        /\ asts.validate = <<>>
        /\ results.validate = ValidateCatch(message)
        /\ results.format.kind # "none"
            => /\ results.format = FormatCatch(message)
               /\ asts.format = <<>>
               /\ call = "format"

\* C13: a declaration keyword that no name token follows is rejected with
\* a parse Error that names the token met and its line; no AST is built
\* and format returns nothing.
MissingNameRejected ==
    pc = "returned"
        => \A preamble \in Preambles, keyword \in DeclarationKeywords, rest \in Nameless :
            source = preamble.text \o keyword.text \o rest
                => NamelessRejected(preamble, keyword)

FunctionNameMissingOnLaterLine ==
    /\ source = "-- c\n\nopt a = 1\nfunct\n= {}"
    /\ pc = "returned"
    /\ results.format.kind = "throw"
    /\ results.format.text
         = "Zap formatting error: Expected function name. Got 'NEWLINE' at line 4"

\* The message ends with the symbolic name and the line of a token of ts.
NamesTokenAndLine(message, ts) ==
    \E i \in 1..Len(ts) :
        EndsWith(message, "'" \o ZapParser_getTokenTypeName(ts[i].type) \o "' at line "
                            \o ToString(ts[i].line))

\* C14: every parse failure is fatal and its message carries the symbolic
\* name of the offending token and its source line.
ParseErrorsNameTokenAndLine ==
    \A entry \in Calls :
        (raised[entry] # <<>> /\ raised[entry][1].stage = "parse")
            => /\ asts[entry] = <<>>
               /\ results[entry] = Catch(entry, raised[entry][1].message)
               /\ NamesTokenAndLine(raised[entry][1].message, lexed[entry][1])

RECURSIVE ItemsLayout(_)
\* The items one after the other: a comment is followed by a line break,
\* any other item by a blank line, the last item by nothing.
ItemsLayout(items) ==
    IF Len(items) = 0 THEN ""
    ELSE IF Len(items) = 1 THEN ZapFormatter_formatItem(items[1], 0)
    ELSE ZapFormatter_formatItem(items[1], 0)
            \o (IF items[1].type = "comment" THEN "\n" ELSE "\n\n")
            \o ItemsLayout(Tail(items))

\* The options, one per line.
OptionsLayout(options) ==
    Join([i \in 1..Len(options) |-> ZapFormatter_formatOption(options[i])], "\n")

\* C15: top-level layout.  The output is the options one per line, one
\* blank line exactly when there are options and items, then the items,
\* a blank line between two of them unless the earlier is a comment, and
\* nothing after the last item.
TopLevelLayout ==
    \A entry \in {"format", "reformat"} :
        (pc = "returned" /\ results[entry].kind = "return")
            => results[entry].text
                 = OptionsLayout(asts[entry][1].options)
                    \o (IF asts[entry][1].options # <<>> /\ asts[entry][1].items # <<>>
                        THEN "\n\n" ELSE "")
                    \o ItemsLayout(asts[entry][1].items)

CommentsHugNextItem ==
    /\ source = "-- a\n-- b\ntype T = u8\nopt k = 1\nevent E = {}\n\n\n\n-- z\n\n"
    /\ results.format.kind = "return"
    /\ results.format.text
         = "opt k = 1\n\n-- a\n-- b\ntype T = u8\n\nevent E = {\n}\n\n-- z"

\* The block of the keyword in multi-line form: the properties that the
\* order has, in the order of properties, one per line.
CanonicalBlock(keyword, properties, order) ==
    LET Lines[i \in 0..Len(properties)] ==
            IF i = 0 THEN ""
            ELSE Lines[i - 1]
                    \o (IF \E j \in 1..Len(order) : order[j] = i
                        THEN "\t" \o properties[i].key \o ": " \o properties[i].value \o ",\n"
                        ELSE "")
    IN  keyword \o " B = {\n" \o Lines[Len(properties)] \o "}"

\* C16: an event or function block is rendered in multi-line form with
\* the properties its source has, in the order from, type, call, data or
\* call, args, rets whatever their order in the source, each on a line of
\* its own that ends in a comma.
CanonicalPropertyOrder ==
    (pc = "returned" /\ call = "format")
        => /\ \A order \in Orders(Len(EventPropertyTexts)) :
                source = BlockSource("event", EventPropertyTexts, order)
                    => results.format
                         = FormatReturn(CanonicalBlock("event", EventPropertyTexts, order))
           /\ \A order \in Orders(Len(FunctionPropertyTexts)) :
                source = BlockSource("funct", FunctionPropertyTexts, order)
                    => results.format
                         = FormatReturn(CanonicalBlock("funct", FunctionPropertyTexts, order))

PropertiesReordered ==
    /\ source = "event B = { data: u8, call: SingleAsync, from: Client }"
    /\ results.format.kind = "return"
    /\ results.format.text = "event B = {\n\tfrom: Client,\n\tcall: SingleAsync,\n\tdata: u8,\n}"

\* The literal that wrote the value of the option lexed[entry] has at
\* place i: a number, a boolean or a string.
IsLiteralOption(entry, i) ==
    /\ lexed[entry][1][i].type = "OPT"
    /\ i + 3 <= Len(lexed[entry][1])
    /\ lexed[entry][1][i + 3].type
            \in {"NUMBER_LITERAL", "BOOLEAN_LITERAL", "STRING_LITERAL"}

\* C17: option values keep their kind and value through format.  The
\* output of a source whose options have number, boolean and string
\* literals as values parses to options with the same keys and values.
OptionValuesRoundTrip ==
    (/\ call = "reformat"
     /\ pc = "returned"
     /\ asts.format[1].items = <<>>
     /\ asts.format[1].options # <<>>
     /\ \A i \in 1..Len(lexed.format[1]) :
            lexed.format[1][i].type = "OPT" => IsLiteralOption("format", i))
        => /\ asts.reformat # <<>>
           /\ asts.reformat[1].options = asts.format[1].options

\* The member node is the declaration of the kind at place i of a body.
IsMember(node, kind, i) ==
    /\ node.type = kind
    /\ IF kind = "comment" THEN node.text = "-- c" \o ToString(i)
       ELSE node.name = "M" \o ToString(i)

\* What a call that has returned has for the namespace of the kinds: the
\* members in source order when all are comments, events and functions,
\* and otherwise the Error raised at the first that is not.
NamespaceOutcome(kinds) ==
    IF \A i \in 1..Len(kinds) : kinds[i] \in MemberKinds
    THEN /\ raised[call] = <<>>
         /\ Len(asts[call][1].items) = 1
         /\ asts[call][1].items[1].type = "namespace"
         /\ Len(asts[call][1].items[1].members) = Len(kinds)
         /\ \A i \in 1..Len(kinds) : IsMember(asts[call][1].items[1].members[i], kinds[i], i)
    ELSE LET first == CHOOSE i \in 1..Len(kinds) :
                        /\ kinds[i] \notin MemberKinds
                        /\ \A j \in 1..(i - 1) : kinds[j] \in MemberKinds
             message == "Unexpected token in namespace: '" \o MemberToken(kinds[first]) \o "'"
         IN  /\ raised[call] = <<[stage |-> "parse", message |-> message]>>
             /\ asts[call] = <<>>
             /\ results[call] = Catch(call, message)

\* C18: a namespace body takes comments, events and functions, any number
\* in any order, and keeps them in source order; a namespace, a type
\* definition, an option or another token in it is a fatal parse Error.
NamespaceMembersOnly ==
    (pc = "returned" /\ call \in {"validate", "format"})
        => \A kinds \in Bodies :
            source = NamespaceSource(kinds) => NamespaceOutcome(kinds)

MembersKeptInOrder ==
    /\ source = NamespaceSource(<<"function", "comment">>)
    /\ pc = "returned"
    /\ call = "format"
    /\ results.format.kind = "return"
    /\ asts.format[1].items[1].members[1].type = "function"
    /\ asts.format[1].items[1].members[2].type = "comment"

RECURSIVE MembersLayout(_)
\* The members of a namespace one after the other, each on its lines one
\* level deep, with a blank line after each that is not a comment and not
\* the last.
MembersLayout(members) ==
    IF Len(members) = 0 THEN ""
    ELSE (IF members[1].type = "comment" THEN "\t" \o members[1].text
          ELSE ZapFormatter_formatItem(members[1], 1))
            \o "\n"
            \o (IF Len(members) > 1 /\ members[1].type # "comment" THEN "\n" ELSE "")
            \o MembersLayout(Tail(members))

\* C19: the members of a namespace are separated as the top-level items
\* are: a blank line between two of them unless the earlier is a comment,
\* which the next member follows on the next line.
NamespaceAdjacency ==
    (/\ results.format.kind = "return"
     /\ Len(asts.format[1].items) = 1
     /\ asts.format[1].items[1].type = "namespace")
        => results.format.text
             = "namespace " \o asts.format[1].items[1].name \o " = {\n"
                \o MembersLayout(asts.format[1].items[1].members) \o "}"

\* The places of value that hold a dot.
DotsOf(value) == {k \in 1..Len(value) : SubSeq(value, k, k) = "."}

\* The types and values of the tokens, in order.
TypesAndValues(ts) == [i \in 1..Len(ts) |-> <<ts[i].type, ts[i].value>>]

\* C20: a number token is a run of digits with at most one dot, which is
\* never a dot that another dot follows in the input, and it ends before
\* a further digit could join it; d1..d2 is NUMBER(d1), DOT_DOT,
\* NUMBER(d2) for all digit strings d1 and d2.
NumberScanner ==
    /\ \A i \in 1..Len(starts) :
        (pc \in {"parse", "returned"} /\ tokens[i].type = "NUMBER_LITERAL")
            => LET value == tokens[i].value
                   after == starts[i] + Len(value)
               IN  /\ value = SubSeq(input, starts[i] + 1, after)
                   /\ isDigit(Head(value))
                   /\ \A k \in 1..Len(value) :
                        isDigit(SubSeq(value, k, k)) \/ SubSeq(value, k, k) = "."
                   /\ Cardinality(DotsOf(value)) <= 1
                   /\ \A k \in DotsOf(value) :
                        starts[i] + k < Len(input) => CharAt(input, starts[i] + k) # "."
                   /\ after < Len(input) => ~isDigit(CharAt(input, after))
                   /\ (after < Len(input) /\ CharAt(input, after) = ".")
                        => \/ DotsOf(value) # {}
                           \/ after + 1 < Len(input) /\ CharAt(input, after + 1) = "."
    /\ pc = "parse"
        => /\ \A d1, d2 \in DigitStrings :
                input = d1 \o ".." \o d2
                    => TypesAndValues(tokens)
                         = <<(<<"NUMBER_LITERAL", d1>>), (<<"DOT_DOT", "..">>),
                             (<<"NUMBER_LITERAL", d2>>), (<<"EOF", "">>)>>
           /\ input = "1.5..2"
                => TypesAndValues(tokens)
                     = <<(<<"NUMBER_LITERAL", "1.5">>), (<<"DOT_DOT", "..">>),
                         (<<"NUMBER_LITERAL", "2">>), (<<"EOF", "">>)>>

DotDotBetweenNumbers ==
    /\ pc = "parse"
    /\ source = "12..007"
    /\ Len(tokens) = 4
    /\ tokens[1].value = "12"
    /\ tokens[2].type = "DOT_DOT"
    /\ tokens[3].value = "007"

\* What the lexer has made of the literal with the body after the
\* preamble: closed by a quote, the token with the quotes around the text
\* the body stands for, at the place the literal starts; not closed, the
\* Error with that place and no token list.
StringOutcome(preamble, body, ending) ==
    LET startLine == LineAfter(preamble.text, Len(preamble.text))
        startColumn == ColumnAfter(preamble.text, Len(preamble.text))
    IN  IF ending = "\""
        THEN /\ raised.validate = <<>> \/ raised.validate[1].stage # "lex"
             /\ lexed.validate # <<>>
             /\ Len(lexed.validate[1]) = preamble.tokens + 2
             /\ lexed.validate[1][preamble.tokens + 1]
                    = Token("STRING_LITERAL", "\"" \o BodyValue(body) \o "\"",
                            startLine, startColumn)
        ELSE /\ raised.validate
                    = <<[stage |-> "lex",
                         message |-> "Unterminated string literal at line "
                                        \o ToString(startLine) \o ", column "
                                        \o ToString(startColumn)]>>
             /\ lexed.validate = <<>>
             /\ asts.validate = <<>>
             /\ ~results.validate.isValid

\* C21: string literal scanning.  A literal runs from its quote to the
\* next quote that no backslash precedes; its token value is the text with
\* the escapes translated, between quotes; a literal that the input ends
\* in raises an Error with the line and column of its opening quote.
StringLiteralScanning ==
    (pc = "returned" /\ call = "validate")
        => \A preamble \in StringPreambles, body \in StringBodies, ending \in StringEndings :
            source = StringSource(preamble, body, ending)
                => StringOutcome(preamble, body, ending)

UnterminatedAfterBackslash ==
    /\ source = "opt a =\n  \"a\\q\\"
    /\ pc = "returned"
    /\ call = "validate"
    /\ results.validate.text = "Unterminated string literal at line 2, column 3"

RECURSIVE Wraps(_, _, _)
\* The node is the base type wrapped once for each suffix of the chain,
\* the last suffix outermost.
Wraps(node, chain, base) ==
    IF chain = <<>> THEN node.subtype = base
    ELSE LET last == chain[Len(chain)]
             front == SubSeq(chain, 1, Len(chain) - 1)
         IN  IF last = "?"
             THEN node.subtype = "optional" /\ Wraps(node.innerType, front, base)
             ELSE /\ node.subtype = "array"
                  /\ node.constraint
                        = (IF last = "[]" THEN <<>>
                           ELSE <<[min |-> <<ParseFloat("2")>>, max |-> <<>>]>>)
                  /\ Wraps(node.elementType, front, base)

\* A chain the parser takes: brackets, then a question mark or none.
BracketsThenQuestion(chain) ==
    \A i \in 1..Len(chain) : chain[i] = "?" => i = Len(chain)

\* C22: suffix precedence.  After a base type each bracket suffix wraps
\* what is before it in an Array node, and one question mark after them
\* wraps the result in an Optional node; each alternative of a union has
\* its own suffixes.
SuffixPrecedence ==
    (pc = "returned" /\ call = "validate")
        => /\ \A base \in SuffixBases, chain \in SuffixChains :
                source = "type T = " \o base.text \o ChainText(chain)
                    => IF BracketsThenQuestion(chain)
                       THEN /\ results.validate.isValid
                            /\ Wraps(DefinedType("validate"), chain, base.subtype)
                       ELSE ~results.validate.isValid
           /\ \A first \in AlternativeChains, second \in AlternativeChains :
                source = "type T = Instance.Part" \o ChainText(first)
                            \o " | struct {}" \o ChainText(second)
                    => /\ results.validate.isValid
                       /\ DefinedType("validate").subtype = "union"
                       /\ Len(DefinedType("validate").types) = 2
                       /\ Wraps(DefinedType("validate").types[1], first, "instance")
                       /\ Wraps(DefinedType("validate").types[2], second, "struct")

OptionalOfArrayOfArray ==
    /\ source = "type T = struct {}[][2..]?"
    /\ pc = "returned"
    /\ call = "validate"
    /\ DefinedType("validate").subtype = "optional"
    /\ DefinedType("validate").innerType.subtype = "array"
    /\ DefinedType("validate").innerType.constraint # <<>>
    /\ DefinedType("validate").innerType.elementType.subtype = "array"
    /\ DefinedType("validate").innerType.elementType.elementType.subtype = "struct"

\* format(source) has parsed the definition of T as the instance type of
\* the className and has rendered it as the text.
InstanceParsedAndRendered(className, text) ==
    /\ IsTypeDefinition("format")
    /\ DefinedType("format") = [type |-> "type", subtype |-> "instance", className |-> className]
    /\ results.format = FormatReturn("type T = " \o text)

\* C23: Instance(C) and Instance.C parse to the instance node with
\* className C, which renders as Instance.C; Instance parses to the
\* instance node without a className, which renders as Instance.
InstanceFormsCollapse ==
    (pc = "returned" /\ call = "format")
        => /\ \A C \in ClassNames :
                source \in {"type T = Instance(" \o C \o ")", "type T = Instance." \o C}
                    => InstanceParsedAndRendered(<<C>>, "Instance." \o C)
           /\ source = "type T = Instance" => InstanceParsedAndRendered(<<>>, "Instance")

\* The enum nodes of the ASTs of a call.
EnumNodes(entry) ==
    IF asts[entry] = <<>> THEN <<>>
    ELSE SelectSeq(TypesWithin(asts[entry][1].items), LAMBDA node : node.subtype = "enum")

\* C24: an enum node without a tagField has no variant with fields; the
\* payload of a variant is parsed when a tag was given, and in an enum
\* without a tag it is a parse Error.
UntaggedEnumHasNoFields ==
    pc = "returned"
        => /\ \A entry \in Calls : \A i \in 1..Len(EnumNodes(entry)) :
                EnumNodes(entry)[i].tagField = <<>>
                    => \A v \in 1..Len(EnumNodes(entry)[i].variants) :
                        EnumNodes(entry)[i].variants[v].fields = <<>>
           /\ \A tag \in EnumTags, body \in EnumBodies :
                (call = "validate" /\ source = EnumSource(tag, body))
                    => IF tag.given \/ \A i \in 1..Len(body) : body[i] = ""
                       THEN /\ results.validate.isValid
                            /\ Len(DefinedType("validate").variants) = Len(body)
                            /\ \A i \in 1..Len(body) :
                                DefinedType("validate").variants[i].fields # <<>>
                                    <=> body[i] # ""
                       ELSE /\ asts.validate = <<>>
                            /\ results.validate
                                 = ValidateCatch("Expected variant name. Got 'LEFT_BRACE' at line 1")

PayloadWithoutTagRejected ==
    /\ source = "type T = enum {V1, V2 {x: u8}}"
    /\ pc = "returned"
    /\ call = "format"
    /\ results.format.kind = "throw"
    /\ asts.format = <<>>

\* C25: a vector type without a component list renders as Vector3
\* whichever keyword was written, and one with a parenthesized list renders
\* as vector(...) with the components in the order of the source.
VectorRendering ==
    (pc = "returned" /\ call = "format")
        => /\ \A keyword \in VectorKeywords :
                source = "type T = " \o keyword
                    => /\ IsTypeDefinition("format")
                       /\ DefinedType("format").components = <<>>
                       /\ results.format = FormatReturn("type T = Vector3")
           /\ \A keyword \in VectorKeywords, list \in ComponentLists, ending \in ListEndings :
                source = VectorSource(keyword, list, ending)
                    => /\ IsTypeDefinition("format")
                       /\ DefinedType("format").components # <<>>
                       /\ Len(DefinedType("format").components[1]) = Len(list)
                       /\ results.format
                            = FormatReturn("type T = vector("
                                \o Join([i \in 1..Len(list) |-> list[i].rendering], ", ")
                                \o ")")

\* Vector2 with two different components and a trailing comma was rendered.
Vector2ListRendered ==
    /\ pc = "returned"
    /\ call = "format"
    /\ source = "type T = Vector2(f32, u8,)"
    /\ results.format = FormatReturn("type T = vector(f32, u8)")

\* The items, members and type nodes of the AST that format(source) rendered.
RenderedNodes ==
    LET items == asts.format[1].items
        Members[i \in 0..Len(items)] ==
            IF i = 0 THEN <<>>
            ELSE Members[i - 1] \o (IF items[i].type = "namespace" THEN items[i].members ELSE <<>>)
    IN  items \o Members[Len(items)] \o TypesWithin(items)

\* Every write moves the counter by one from what it was, the first from
\* entry, and none makes it negative.
StepsOfOne(writes, entry) ==
    \A i \in 1..Len(writes) :
        /\ writes[i] >= 0
        /\ LET before == IF i = 1 THEN entry ELSE writes[i - 1]
           IN  writes[i] = before + 1 \/ writes[i] = before - 1

\* The node is a construct that is rendered in a deeper block.
EntersBlock(node, entry) ==
    \/ node.type \in {"event", "function", "namespace"}
    \/ /\ node.type = "type"
       /\ node.subtype = "tuple"
       /\ ~FitsInline(TupleInlineFormat(node, entry))

\* C26: the indent depth counter is never negative, goes up by one on
\* entering a namespace body, an event or function block or a multi-line
\* tuple, is back at its entry value when the construct's rendering returns,
\* and is 0 when format() returns, as it is in a new formatter.
IndentDepthBalanced ==
    (pc = "returned" /\ call = "format" /\ asts.format # <<>>)
        => /\ results.format.kind = "return"
           /\ With(IndentWrites(asts.format[1].items, 0), LAMBDA writes :
                    StepsOfOne(writes, 0) /\ LevelAfter(writes, 0) = 0)
           /\ \A i \in 1..Len(RenderedNodes) : \A entry \in {0, 1} :
                With(IndentWrites_node(RenderedNodes[i], entry), LAMBDA writes :
                     /\ StepsOfOne(writes, entry)
                     /\ LevelAfter(writes, entry) = entry
                     /\ EntersBlock(RenderedNodes[i], entry)
                            => \E k \in 1..Len(writes) :
                                /\ writes[k] = entry + 1
                                /\ \A j \in 1..(k - 1) : writes[j] \in {entry, entry + 1})

\* format() has returned a namespace whose event carries a multi-line tuple:
\* the counter went up to 3 and came back to 0.
TupleInEventInNamespace ==
    /\ pc = "returned"
    /\ call = "format"
    /\ results.format.kind = "return"
    /\ asts.format # <<>>
    /\ asts.format[1].items[1].type = "namespace"
    /\ With(IndentWrites(asts.format[1].items, 0), LAMBDA writes :
             /\ Len(writes) >= 6
             /\ SubSeq(writes, 1, 6) = <<1, 2, 3, 2, 1, 2>>
             /\ LevelAfter(writes, 0) = 0)

\* C27: formatting preserves the parsed structure.  When format(source)
\* has returned, parsing its output gives the AST that was parsed from the
\* source.
FormatPreservesStructure ==
    (pc = "returned" /\ call = "reformat" /\ source \in GroupedSources)
        => /\ asts.reformat # <<>>
           /\ asts.reformat = asts.format

\* C28: the two lexers are observationally equivalent.  From every state
\* the scanning loop is in, nextToken of the character lexer and nextToken
\* of the byte lexer give the same token at the same cursor, or throw the
\* same Error; hence the same token sequences, and the one loop ends when
\* the other does.
LexersAgree ==
    (pc = "tokenize" /\ position < Len(input))
        => NextTokenOf("chars", input, LexerNow) = NextTokenOf("bytes", input, LexerNow)

\* The outcome of a production or loop that was entered with the cursor at
\* c: an Error, or a cursor that is not before c, not past the EOF token,
\* and at least `least` tokens after c.
AdvancesOrRaises(ts, c, r, least) ==
    r.ok => /\ r.c >= c + least
            /\ r.c <= Len(ts) - 1

RECURSIVE ArraysAround(_)
\* The array nodes that ArraySuffixLoop has put around the base type.
ArraysAround(node) ==
    IF node.subtype = "array" THEN 1 + ArraysAround(node.elementType) ELSE 0

\* The properties that a PropertyLoop has set.
PropertiesSet(properties) == Cardinality({key \in DOMAIN properties : properties[key] # <<>>})

\* Each production entered at c consumes a token or raises.
ProductionsAdvance(ts, c) ==
    /\ AdvancesOrRaises(ts, c, ZapParser_parseType(ts, c), 1)
    /\ AdvancesOrRaises(ts, c, ZapParser_parseOptionalType(ts, c), 1)
    /\ AdvancesOrRaises(ts, c, ZapParser_parseBaseType(ts, c), 1)
    /\ AdvancesOrRaises(ts, c, ZapParser_parseStructFields(ts, c), 1)
    /\ AdvancesOrRaises(ts, c, ZapParser_parseComment(ts, c), 1)
    /\ AdvancesOrRaises(ts, c, ZapParser_parseEvent(ts, c), 1)
    /\ AdvancesOrRaises(ts, c, ZapParser_parseFunction(ts, c), 1)
    /\ AdvancesOrRaises(ts, c, ZapParser_parseNamespace(ts, c), 1)
    /\ AdvancesOrRaises(ts, c, ZapParser_parseOption(ts, c), 1)
    /\ AdvancesOrRaises(ts, c, ZapParser_parseTypeDefinition(ts, c), 1)
    /\ AdvancesOrRaises(ts, c, ZapParser_consume(ts, c, ZapParser_peek(ts, c).type, ""),
                        IF ZapParser_isAtEnd(ts, c) THEN 0 ELSE 1)
    /\ ZapParser_advance(ts, c) \in {c, c + 1}
    /\ ZapParser_advance(ts, c) <= Len(ts) - 1
    /\ ZapParser_skipNewlines(ts, c) \in c..(Len(ts) - 1)

\* Each loop entered at c has moved the cursor by at least one token for
\* every iteration it has completed, or has raised.
LoopsAdvance(ts, c) ==
    /\ With(ParseLoop(ts, c, <<>>, <<>>), LAMBDA r :
             AdvancesOrRaises(ts, c, r, IF r.ok THEN Len(r.v.options) + Len(r.v.items) ELSE 0))
    /\ \A isEvent \in BOOLEAN :
         With(PropertyLoop(ts, c, isEvent,
                           IF isEvent THEN NoEventProperties ELSE NoFunctionProperties),
              LAMBDA r : AdvancesOrRaises(ts, c, r, IF r.ok THEN PropertiesSet(r.v) ELSE 0))
    /\ With(NamespaceMemberLoop(ts, c, <<>>), LAMBDA r : AdvancesOrRaises(ts, c, r, Len(r.v)))
    /\ With(StructFieldLoop(ts, c, <<>>), LAMBDA r : AdvancesOrRaises(ts, c, r, Len(r.v)))
    /\ \A tagField \in {<<>>, <<"k">>} :
         With(EnumVariantLoop(ts, c, tagField, <<>>), LAMBDA r :
              AdvancesOrRaises(ts, c, r, Len(r.v)))
    /\ With(TupleElements(ts, c, <<>>), LAMBDA r : AdvancesOrRaises(ts, c, r, Len(r.v)))
    /\ With(VectorComponents(ts, c, <<>>), LAMBDA r : AdvancesOrRaises(ts, c, r, Len(r.v)))
    /\ With(ArraySuffixLoop(ts, c, [type |-> "type", subtype |-> "primitive"]), LAMBDA r :
             AdvancesOrRaises(ts, c, r, IF r.ok THEN ArraysAround(r.v) ELSE 0))
    /\ With(UnionLoop(ts, c, <<>>), LAMBDA r : AdvancesOrRaises(ts, c, r, Len(r.v)))

\* C29: parse terminates on a token sequence that ends in EOF.  From every
\* cursor of the tokens that tokenize returned, every production and every
\* parsing loop raises an Error or leaves the cursor further on and not
\* past EOF, a loop by at least one token for each of its iterations; and
\* parse has returned or raised.
ParserAdvances ==
    (pc = "returned" /\ call = "validate" /\ lexed.validate # <<>>)
        => /\ results.validate.kind = "return"
           /\ results.validate.isValid <=> asts.validate # <<>>
           /\ With(ZapParser_constructor(lexed.validate[1]), LAMBDA ts :
                    /\ ts[Len(ts)].type = "EOF"
                    /\ \A c \in 0..(Len(ts) - 1) :
                         ProductionsAdvance(ts, c) /\ LoopsAdvance(ts, c))

\* parse has raised on a source cut short inside the component list of a
\* vector, whose loop has taken two components from the cursor after `(`.
CutShortInsideVector ==
    /\ pc = "returned"
    /\ call = "validate"
    /\ lexed.validate # <<>>
    /\ ~results.validate.isValid
    /\ With(ZapParser_constructor(lexed.validate[1]), LAMBDA ts :
             \E c \in 2..(Len(ts) - 1) :
                /\ ts[c].type = "LEFT_PAREN"
                /\ ts[c - 1].type = "VECTOR"
                /\ VectorComponents(ts, c, <<>>).ok
                /\ Len(VectorComponents(ts, c, <<>>).v) = 2
                /\ ZapParser_isAtEnd(ts, VectorComponents(ts, c, <<>>).c))

\* C30: net.zap is accepted.  validate reports it valid and format returns
\* formatted text for it.
NetZapAccepted ==
    (source = NetZap /\ pc = "returned")
        => /\ results.validate = ValidateReturn
           /\ call \in {"format", "reformat"} => results.format.kind = "return"

====
